---- MODULE Spec2Model ----
(***************************************************************************)
(* Model of the CTE weighting-factor completion engine and of the          *)
(* component balancing / service partitioning layer of cteepbd             *)
(* (src/src/cte.rs, src/src/vecops.rs).                                    *)
(*                                                                         *)
(* Numbers: ren / nren weighting factors are integers in units of 10^-4    *)
(* (1.0 = 10000).  Energy values of components are exact rationals         *)
(* <<numerator, denominator>> in lowest terms with a positive denominator. *)
(***************************************************************************)
EXTENDS Integers, Sequences, FiniteSets, TLC

VARIABLES
    pc,          \* position of the run: which operation acted last
    wfactors,    \* Factors as parsed from the text: [wmeta, wdata]
    args,        \* the optional cogen, cogennepb, red1, red2 of the call
    user,        \* UserWFactors resolved by find_user_wfactors
    stripnepb,   \* the strip flag of the call
    fixed,       \* Result<Factors, Error> of fix_wfactors
    refixed,     \* Result of fix_wfactors applied to its own output
    components,  \* Components as parsed: [cmeta, cdata]
    balanced,    \* Components after fix_components
    rebalanced,  \* Components after fix_components on the balanced list
    service,     \* target service of the last components_by_service call
    byservice,   \* service -> Components returned by components_by_service
    updated,     \* Factors after update_user_wfactors
    nearby,      \* Factors returned by wfactors_to_nearby
    stripped,    \* Factors after strip_wfactors
    loc,         \* location string given to new_wfactors
    located,     \* Result<Factors, Error> of new_wfactors
    operand1,    \* first operand of a two-operand vector operation
    operand2,    \* second operand of a two-operand vector operation
    vecres,      \* results of the two-operand vector operations
    vectors,     \* list of vectors given to veclistsum
    listsum,     \* Option: result of veclistsum
    uefields,    \* the fields the text of a UsedEnergy record is written from
    uetext,      \* text of a UsedEnergy record, a sequence of tokens
    ueparsed,    \* Result<UsedEnergy, Error> of from_str
    ueout        \* Option: text formatted from the parsed record

factorVars == <<wfactors, args, user, stripnepb, fixed, refixed>>

compVars == <<components, balanced, rebalanced, service, byservice>>

vecVars == <<operand1, operand2, vecres, vectors, listsum>>

ueVars == <<uefields, uetext, ueparsed, ueout>>

locVars == <<loc, located>>

\* the variables the runs on factor tables and component lists leave alone
aux == <<updated, nearby, stripped, locVars, vecVars, ueVars>>

vars == <<pc, factorVars, compVars, aux>>

(***************************************************************************)
(* Bounds of the model                                                     *)
(***************************************************************************)
\* Longest factor table that is loaded
MaxRows == 4
\* Longest component list that is loaded
MaxComps == 3
\* Longest vector given to a vector operation
MaxLen == 2
\* Longest list of vectors given to veclistsum
MaxVectors == 2
\* Most values in the text of a UsedEnergy record
MaxValues == 2

(***************************************************************************)
(* Generic helpers                                                         *)
(***************************************************************************)
MinOf(S) == CHOOSE x \in S : \A y \in S : x <= y

MaxOf(S) == CHOOSE x \in S : \A y \in S : x >= y

\* Vec::retain with the predicate "index is in Keep"
RECURSIVE KeepIdx(_, _, _)
KeepIdx(seq, Keep, i) ==
    IF i > Len(seq) THEN <<>>
    ELSE IF i \in Keep THEN <<seq[i]>> \o KeepIdx(seq, Keep, i + 1)
         ELSE KeepIdx(seq, Keep, i + 1)

(***************************************************************************)
(* Data model: RenNren, Factor, Meta, Factors                              *)
(***************************************************************************)
RenNren(ren, nren) == [ren |-> ren, nren |-> nren]

Factor(c, s, d, st, ren, nren, comment) ==
    [carrier |-> c, source |-> s, dest |-> d, step |-> st,
     ren |-> ren, nren |-> nren, comment |-> comment]

\* f.factors()
FactorValues(f) == RenNren(f.ren, f.nren)

\* The lookup key of a row
KeyOf(f) == <<f.carrier, f.source, f.dest, f.step>>

\* Regulatory defaults (cte/data.rs)
CTE_COGEN_DEFAULTS_TO_GRID == RenNren(0, 25000)

CTE_COGEN_DEFAULTS_TO_NEPB == RenNren(0, 25000)

CTE_RED_DEFAULTS_RED1 == RenNren(0, 13000)

CTE_RED_DEFAULTS_RED2 == RenNren(0, 13000)

\* Option<RenNren>: <<>> is None, <<v>> is Some(v)
None == <<>>

Some(v) == <<v>>

\* opt.or_else(|| alt)
OrElse(opt, alt) == IF opt # None THEN opt ELSE alt

\* opt.unwrap_or(dflt)
UnwrapOr(opt, dflt) == IF opt # None THEN opt[1] ELSE dflt

\* format!("{:.3}", x): x is in units of 10^-4, the text keeps 3 decimals
\* (round half to even on the dropped digit), given back in units of 10^-4
Fmt3(x) ==
    LET a == IF x < 0 THEN -x ELSE x
        q == a \div 10
        r == a % 10
        up == IF r > 5 \/ (r = 5 /\ q % 2 = 1) THEN q + 1 ELSE q
    IN (IF x < 0 THEN -1 ELSE 1) * up * 10

\* format!("{:.3}, {:.3}", v.ren, v.nren)
FmtRenNren(v) == RenNren(Fmt3(v.ren), Fmt3(v.nren))

\* Factors::get_meta_rennren: first metadata entry with that key, parsed
get_meta_rennren(wmeta, key) ==
    LET I == {i \in 1..Len(wmeta) : wmeta[i].key = key}
    IN IF I = {} THEN None ELSE Some(wmeta[MinOf(I)].value)

\* Factors::update_meta: update the first entry with that key or insert one
update_meta(wmeta, key, value) ==
    LET I == {i \in 1..Len(wmeta) : wmeta[i].key = key}
    IN IF I = {} THEN Append(wmeta, [key |-> key, value |-> value])
       ELSE [wmeta EXCEPT ![MinOf(I)].value = value]

\* Indexes of the rows of wdata with the given fields; "*" matches any value
Rows(wdata, c, s, d, st) ==
    {i \in 1..Len(wdata) :
        /\ (c = "*" \/ wdata[i].carrier = c)
        /\ (s = "*" \/ wdata[i].source = s)
        /\ (d = "*" \/ wdata[i].dest = d)
        /\ (st = "*" \/ wdata[i].step = st)}

\* wdata.iter().any(...)
AnyRow(wdata, c, s, d, st) == Rows(wdata, c, s, d, st) # {}

\* wdata.iter().find(...): the first match, as an Option
FindRow(wdata, c, s, d, st) ==
    LET I == Rows(wdata, c, s, d, st)
    IN IF I = {} THEN None ELSE Some(wdata[MinOf(I)])

\* wdata.iter().map(|f| f.carrier).unique()
CarriersOf(wdata) == {wdata[i].carrier : i \in 1..Len(wdata)}

(***************************************************************************)
(* find_user_wfactors / update_user_wfactors                               *)
(***************************************************************************)
\* the value of the first row matching the family's signature
RowValue(wdata, c, s, d, st) ==
    LET f == FindRow(wdata, c, s, d, st)
    IN IF f = None THEN None ELSE Some(FactorValues(f[1]))

\* UserCogen falling back on the default of another family
UserCogen_WrongDefault(wf, cogen) ==
    UnwrapOr(OrElse(OrElse(cogen, get_meta_rennren(wf.wmeta, "CTE_COGEN")),
                    RowValue(wf.wdata, "*", "COGENERACION", "A_RED", "A")),
             CTE_RED_DEFAULTS_RED1)

UserCogen(wf, cogen) ==
    UnwrapOr(OrElse(OrElse(cogen, get_meta_rennren(wf.wmeta, "CTE_COGEN")),
                    RowValue(wf.wdata, "*", "COGENERACION", "A_RED", "A")),
             CTE_COGEN_DEFAULTS_TO_GRID)

\* variant: the row looked for is the cogeneration supply row
UserCogenNepb_Supply(wf, cogennepb) ==
    UnwrapOr(OrElse(OrElse(cogennepb, get_meta_rennren(wf.wmeta, "CTE_COGENNEPB")),
                    RowValue(wf.wdata, "*", "COGENERACION", "SUMINISTRO", "A")),
             CTE_COGEN_DEFAULTS_TO_NEPB)

UserCogenNepb(wf, cogennepb) ==
    UnwrapOr(OrElse(OrElse(cogennepb, get_meta_rennren(wf.wmeta, "CTE_COGENNEPB")),
                    RowValue(wf.wdata, "*", "COGENERACION", "A_NEPB", "A")),
             CTE_COGEN_DEFAULTS_TO_NEPB)

\* variant: the metadata is consulted before the argument
UserRed1_MetaFirst(wf, red1) ==
    UnwrapOr(OrElse(OrElse(get_meta_rennren(wf.wmeta, "CTE_RED1"), red1),
                    RowValue(wf.wdata, "RED1", "*", "SUMINISTRO", "A")),
             CTE_RED_DEFAULTS_RED1)

UserRed1(wf, red1) ==
    UnwrapOr(OrElse(OrElse(red1, get_meta_rennren(wf.wmeta, "CTE_RED1")),
                    RowValue(wf.wdata, "RED1", "*", "SUMINISTRO", "A")),
             CTE_RED_DEFAULTS_RED1)

UserRed2(wf, red2) ==
    UnwrapOr(OrElse(OrElse(red2, get_meta_rennren(wf.wmeta, "CTE_RED2")),
                    RowValue(wf.wdata, "RED2", "*", "SUMINISTRO", "A")),
             CTE_RED_DEFAULTS_RED2)

find_user_wfactors(wf, cogen, cogennepb, red1, red2) ==
    [cogen |-> UserCogen(wf, cogen),
     cogennepb |-> UserCogenNepb(wf, cogennepb),
     red1 |-> UserRed1(wf, red1),
     red2 |-> UserRed2(wf, red2)]

update_user_wfactors(wf, u) ==
    LET m1 == update_meta(wf.wmeta, "CTE_COGEN", FmtRenNren(u.cogen))
        m2 == update_meta(m1, "CTE_COGENNEPB", FmtRenNren(u.cogennepb))
        m3 == update_meta(m2, "CTE_RED1", FmtRenNren(u.red1))
        m4 == update_meta(m3, "CTE_RED2", FmtRenNren(u.red2))
    IN [wf EXCEPT !.wmeta = m4]

(***************************************************************************)
(* fix_wfactors                                                            *)
(***************************************************************************)
\* Result<Factors, Error>: Ok holds the table, Err holds the message only
Ok(wmeta, wdata) ==
    [ok |-> TRUE, wmeta |-> wmeta, wdata |-> wdata,
     err |-> [carrier |-> "", derivation |-> ""]]

\* bail!(...): carrier is the carrier the message names, derivation the
\* factor the message says could not be defined
Err(c, derivation) ==
    [ok |-> FALSE, wmeta |-> <<>>, wdata |-> <<>>,
     err |-> [carrier |-> c, derivation |-> derivation]]

\* EnsureMaInsitu without the test for an existing row
EnsureMaInsitu_Always(wdata) ==
    Append(wdata, Factor("MEDIOAMBIENTE", "INSITU", "SUMINISTRO", "A", 10000, 0,
           <<"Recursos usados para obtener energia termica del medioambiente">>))

\* Asegura que existe MEDIOAMBIENTE, INSITU, SUMINISTRO, A, 1.0, 0.0
EnsureMaInsitu(wdata) ==
    IF ~AnyRow(wdata, "MEDIOAMBIENTE", "INSITU", "SUMINISTRO", "A")
    THEN Append(wdata, Factor("MEDIOAMBIENTE", "INSITU", "SUMINISTRO", "A", 10000, 0,
                <<"Recursos usados para obtener energia termica del medioambiente">>))
    ELSE wdata

\* Asegura que existe MEDIOAMBIENTE, RED, SUMINISTRO, A, 1.0, 0.0
EnsureMaRed(wdata) ==
    IF ~AnyRow(wdata, "MEDIOAMBIENTE", "RED", "SUMINISTRO", "A")
    THEN Append(wdata, Factor("MEDIOAMBIENTE", "RED", "SUMINISTRO", "A", 10000, 0,
                <<"Recursos usados para obtener energia termica del medioambiente (red ficticia)">>))
    ELSE wdata

\* EnsureElecInsitu without the test for ELECTRICIDAD among the carriers
EnsureElecInsitu_AnyTable(wdata, wf_carriers) ==
    IF ~AnyRow(wdata, "ELECTRICIDAD", "INSITU", "SUMINISTRO", "*")
    THEN Append(wdata, Factor("ELECTRICIDAD", "INSITU", "SUMINISTRO", "A", 10000, 0,
                <<"Recursos usados para generar electricidad in situ">>))
    ELSE wdata

\* Asegura que existe ELECTRICIDAD, INSITU, SUMINISTRO, A, 1.0, 0.0 si hay
\* ELECTRICIDAD (the test on the existing rows does not look at the step)
EnsureElecInsitu(wdata, wf_carriers) ==
    IF "ELECTRICIDAD" \in wf_carriers
       /\ ~AnyRow(wdata, "ELECTRICIDAD", "INSITU", "SUMINISTRO", "*")
    THEN Append(wdata, Factor("ELECTRICIDAD", "INSITU", "SUMINISTRO", "A", 10000, 0,
                <<"Recursos usados para generar electricidad in situ">>))
    ELSE wdata

\* HasGridFactors without the test f.source == Source::RED
HasGridFactors_AnySource(wdata, wf_carriers) ==
    \A c \in wf_carriers : AnyRow(wdata, c, "*", "SUMINISTRO", "A")

\* has_grid_factors_for_all_carriers
HasGridFactors(wdata, wf_carriers) ==
    \A c \in wf_carriers : AnyRow(wdata, c, "RED", "SUMINISTRO", "A")

\* The message of the missing grid factor names no carrier: its text is
\* 'de algun vector "VECTOR, INSITU, SUMINISTRO, A, fren?, fnren?"'
GridFactorsError == Err("VECTOR", "RED_SUMINISTRO_A")

\* En paso A, el factor SUMINISTRO de cogeneracion es 0.0, 0.0
EnsureCogenInput(wdata) ==
    IF ~AnyRow(wdata, "*", "COGENERACION", "SUMINISTRO", "*")
    THEN Append(wdata, Factor("ELECTRICIDAD", "COGENERACION", "SUMINISTRO", "A", 0, 0,
                <<"Factor de paso generado (el impacto de la cogeneracion se tiene en cuenta en el vector de suministro)">>))
    ELSE wdata

\* value_origin of the generated cogeneration rows: the comment ends with
\* "(Valor predefinido)" when the value is the default (to f32 EPSILON)
ValueOrigin(text, v, dflt) ==
    IF v.ren = dflt.ren /\ v.nren = dflt.nren
    THEN <<text, "(Valor predefinido)">> ELSE <<text, "(Valor de usuario)">>

\* ToGridA without the test for an existing row
ToGridA_Untested(st, c, s, fp_a_input, cogen) ==
    IF ~st.ok THEN st
    ELSE IF s # "COGENERACION"
    THEN IF fp_a_input # None
         THEN [st EXCEPT !.wdata = Append(@,
                  [fp_a_input[1] EXCEPT !.dest = "A_RED", !.step = "A",
                   !.comment = <<"Recursos usados para producir la energia exportada a la red">>])]
         ELSE Err(c, "A_RED_A")
    ELSE [st EXCEPT !.wdata = Append(@,
             Factor("ELECTRICIDAD", "COGENERACION", "A_RED", "A", cogen.ren, cogen.nren,
                 ValueOrigin("Recursos usados para producir la electricidad cogenerada y exportada a la red",
                             cogen, CTE_COGEN_DEFAULTS_TO_GRID)))]

\* VECTOR, SRC, A_RED, A
ToGridA(st, c, s, fp_a_input, cogen) ==
    IF ~st.ok \/ AnyRow(st.wdata, c, s, "A_RED", "A") THEN st
    ELSE IF s # "COGENERACION"
    THEN IF fp_a_input # None
         THEN [st EXCEPT !.wdata = Append(@,
                  [fp_a_input[1] EXCEPT !.dest = "A_RED", !.step = "A",
                   !.comment = <<"Recursos usados para producir la energia exportada a la red">>])]
         ELSE Err(c, "A_RED_A")
    ELSE [st EXCEPT !.wdata = Append(@,
             Factor("ELECTRICIDAD", "COGENERACION", "A_RED", "A", cogen.ren, cogen.nren,
                 ValueOrigin("Recursos usados para producir la electricidad cogenerada y exportada a la red",
                             cogen, CTE_COGEN_DEFAULTS_TO_GRID)))]

\* VECTOR, SRC, A_NEPB, A
ToNepbA(st, c, s, fp_a_input, cogennepb) ==
    IF ~st.ok \/ AnyRow(st.wdata, c, s, "A_NEPB", "A") THEN st
    ELSE IF s # "COGENERACION"
    THEN IF fp_a_input # None
         THEN [st EXCEPT !.wdata = Append(@,
                  [fp_a_input[1] EXCEPT !.dest = "A_NEPB", !.step = "A",
                   !.comment = <<"Recursos usados para producir la energia exportada a usos no EPB">>])]
         ELSE Err(c, "A_NEPB_A")
    ELSE [st EXCEPT !.wdata = Append(@,
             Factor("ELECTRICIDAD", "COGENERACION", "A_NEPB", "A", cogennepb.ren, cogennepb.nren,
                 ValueOrigin("Recursos usados para producir la electricidad cogenerada y exportada a usos no EPB",
                             cogennepb, CTE_COGEN_DEFAULTS_TO_NEPB)))]

\* ToGridB that derives nothing
ToGridB_Omitted(st, c, s, fp_a_red_input) == st

\* VECTOR, SRC, A_RED, B
ToGridB(st, c, s, fp_a_red_input) ==
    IF ~st.ok \/ AnyRow(st.wdata, c, s, "A_RED", "B") THEN st
    ELSE IF fp_a_red_input # None
    THEN [st EXCEPT !.wdata = Append(@,
             Factor(fp_a_red_input[1].carrier, s, "A_RED", "B",
                    fp_a_red_input[1].ren, fp_a_red_input[1].nren,
                    <<"Recursos ahorrados a la red por la energia producida in situ y exportada a la red">>))]
    ELSE Err(c, "A_RED_B")

\* ToNepbB copying the supply row of the source itself
ToNepbB_OwnSupply(st, c, s, fp_a_red_input) ==
    IF ~st.ok \/ AnyRow(st.wdata, c, s, "A_NEPB", "B") THEN st
    ELSE IF FindRow(st.wdata, c, s, "SUMINISTRO", "A") # None
    THEN [st EXCEPT !.wdata = Append(@,
             Factor(c, s, "A_NEPB", "B",
                    FindRow(st.wdata, c, s, "SUMINISTRO", "A")[1].ren,
                    FindRow(st.wdata, c, s, "SUMINISTRO", "A")[1].nren,
                    <<"Recursos ahorrados a la red por la energia producida in situ y exportada a usos no EPB">>))]
    ELSE Err(c, "A_NEPB_B")

\* VECTOR, SRC, A_NEPB, B
ToNepbB(st, c, s, fp_a_red_input) ==
    IF ~st.ok \/ AnyRow(st.wdata, c, s, "A_NEPB", "B") THEN st
    ELSE IF fp_a_red_input # None
    THEN [st EXCEPT !.wdata = Append(@,
             Factor(fp_a_red_input[1].carrier, s, "A_NEPB", "B",
                    fp_a_red_input[1].ren, fp_a_red_input[1].nren,
                    <<"Recursos ahorrados a la red por la energia producida in situ y exportada a usos no EPB">>))]
    ELSE Err(c, "A_NEPB_B")

\* One turn of "for (c, s) in &exp_carriers"; a bail ends the function
ExportPair(st, c, s, u) ==
    IF ~st.ok THEN st
    ELSE LET fp_a_input == FindRow(st.wdata, c, s, "SUMINISTRO", "A")
             s1 == ToGridA(st, c, s, fp_a_input, u.cogen)
             s2 == ToNepbA(s1, c, s, fp_a_input, u.cogennepb)
             fp_a_red_input ==
                 IF s2.ok THEN FindRow(s2.wdata, c, "RED", "SUMINISTRO", "A") ELSE None
             s3 == ToGridB(s2, c, s, fp_a_red_input)
         IN ToNepbB(s3, c, s, fp_a_red_input)

\* exp_carriers, in the order of the loop
exp_carriers ==
    << <<"ELECTRICIDAD", "INSITU">>, <<"ELECTRICIDAD", "COGENERACION">>,
       <<"MEDIOAMBIENTE", "INSITU">> >>

EnsureExports(st, u) ==
    LET e == exp_carriers
    IN ExportPair(ExportPair(ExportPair(st, e[1][1], e[1][2], u),
                             e[2][1], e[2][2], u),
                  e[3][1], e[3][2], u)

\* EnsureRed1 adding the regulatory default, not the resolved value
EnsureRed1_Default(wdata, red1) ==
    IF ~AnyRow(wdata, "RED1", "RED", "SUMINISTRO", "*")
    THEN Append(wdata, Factor("RED1", "RED", "SUMINISTRO", "A",
                CTE_RED_DEFAULTS_RED1.ren, CTE_RED_DEFAULTS_RED1.nren,
                <<"Recursos usados para suministrar energia de la red de distrito 1 (definible por el usuario)">>))
    ELSE wdata

\* Asegura que existe RED1 | RED2, RED, SUMINISTRO, A, ren, nren
EnsureRed1(wdata, red1) ==
    IF ~AnyRow(wdata, "RED1", "RED", "SUMINISTRO", "*")
    THEN Append(wdata, Factor("RED1", "RED", "SUMINISTRO", "A", red1.ren, red1.nren,
                <<"Recursos usados para suministrar energia de la red de distrito 1 (definible por el usuario)">>))
    ELSE wdata

EnsureRed2(wdata, red2) ==
    IF ~AnyRow(wdata, "RED2", "RED", "SUMINISTRO", "*")
    THEN Append(wdata, Factor("RED2", "RED", "SUMINISTRO", "A", red2.ren, red2.nren,
                <<"Recursos usados para suministrar energia de la red de distrito 2 (definible por el usuario)">>))
    ELSE wdata

\* StripNepb that ignores the flag
StripNepb_Never(wdata, strip) == wdata

\* Elimina destino nEPB si stripnepb es true
StripNepb(wdata, strip) ==
    IF strip
    THEN KeepIdx(wdata, {i \in 1..Len(wdata) : wdata[i].dest # "A_NEPB"}, 1)
    ELSE wdata

fix_wfactors(wf, u, strip) ==
    LET wf_carriers == CarriersOf(wf.wdata)
        w3 == EnsureElecInsitu(EnsureMaRed(EnsureMaInsitu(wf.wdata)), wf_carriers)
    IN IF ~HasGridFactors(w3, wf_carriers) THEN GridFactorsError
       ELSE LET st == EnsureExports(Ok(wf.wmeta, EnsureCogenInput(w3)), u)
            IN IF ~st.ok THEN st
               ELSE [st EXCEPT !.wdata =
                        StripNepb(EnsureRed2(EnsureRed1(@, u.red1), u.red2), strip)]

\* parse_wfactors, after the text is parsed into wf
parse_wfactors(wf, cogen, cogennepb, red1, red2, strip) ==
    LET u == find_user_wfactors(wf, cogen, cogennepb, red1, red2)
    IN fix_wfactors(update_user_wfactors(wf, u), u, strip)

(***************************************************************************)
(* Exact arithmetic on energy values (f32 in the code)                     *)
(***************************************************************************)
RECURSIVE GCD(_, _)
GCD(a, b) == IF b = 0 THEN a ELSE GCD(b, a % b)

Abs(x) == IF x < 0 THEN -x ELSE x

\* the rational n / d (d # 0) in lowest terms with a positive denominator
Rat(n, d) ==
    LET g == GCD(Abs(n), Abs(d))
        sgn == IF d < 0 THEN -1 ELSE 1
    IN <<sgn * (n \div g), Abs(d) \div g>>

RZero == Rat(0, 1)

RAdd(x, y) == Rat(x[1] * y[2] + y[1] * x[2], x[2] * y[2])

RSub(x, y) == Rat(x[1] * y[2] - y[1] * x[2], x[2] * y[2])

RMul(x, y) == Rat(x[1] * y[1], x[2] * y[2])

\* x / y for y # 0
RDiv(x, y) == Rat(x[1] * y[2], x[2] * y[1])

\* x > 0.0
RPos(x) == x[1] > 0

\* x <= y
RLeq(x, y) == x[1] * y[2] <= y[1] * x[2]

(***************************************************************************)
(* vecops.rs                                                               *)
(***************************************************************************)
\* vec.get(idx).unwrap_or(&0.0), idx counted from 1
GetOr0(vec, idx) == IF idx <= Len(vec) THEN vec[idx] ELSE RZero

\* veclist.iter().map(|lst| lst.len()).max().unwrap_or(0)
MaxLenOf(veclist) ==
    IF veclist = <<>> THEN 0 ELSE MaxOf({Len(veclist[k]) : k \in 1..Len(veclist)})

\* the fold of veclistsum from its k-th vector on, acc being the accumulator
RECURSIVE VecListFold(_, _, _, _)
VecListFold(veclist, k, acc, maxlen) ==
    IF k > Len(veclist) THEN acc
    ELSE VecListFold(veclist, k + 1,
             [idx \in 1..maxlen |-> RAdd(GetOr0(acc, idx), GetOr0(veclist[k], idx))],
             maxlen)

\* Elementwise sum res[i] = vec1[i] + vec2[i] + ... + vecj[i]
veclistsum(veclist) == VecListFold(veclist, 1, <<RZero>>, MaxLenOf(veclist))

\* f32::min
RMin(x, y) == IF RLeq(x, y) THEN x ELSE y

\* Elementwise minimum min res[i] = min(vec1[i], vec2[i])
vecvecmin(vec1, vec2) == [ii \in 1..Len(vec1) |-> RMin(vec1[ii], GetOr0(vec2, ii))]

\* Elementwise sum of arrays
vecvecsum(vec1, vec2) == [ii \in 1..Len(vec1) |-> RAdd(vec1[ii], GetOr0(vec2, ii))]

\* Elementwise multiplication res[i] = vec1[i] * vec2[i]
vecvecmul(vec1, vec2) == [ii \in 1..Len(vec1) |-> RMul(vec1[ii], GetOr0(vec2, ii))]

\* Elementwise difference res[i] = vec1[i] - vec2[i]
vecvecdif(vec1, vec2) == [ii \in 1..Len(vec1) |-> RSub(vec1[ii], GetOr0(vec2, ii))]

\* Multiply vector by scalar
veckmul(vec1, k) == [ii \in 1..Len(vec1) |-> RMul(vec1[ii], k)]

\* Sum all elements in a vector
RECURSIVE vecsum(_)
vecsum(vec) == IF vec = <<>> THEN RZero ELSE RAdd(vec[1], vecsum(Tail(vec)))

(***************************************************************************)
(* fix_components                                                          *)
(***************************************************************************)
Component(carrier, ctype, csubtype, srv, values, comment) ==
    [carrier |-> carrier, ctype |-> ctype, csubtype |-> csubtype,
     service |-> srv, values |-> values, comment |-> comment]

\* iter().filter(..): the components of cdata with these fields, in order;
\* "*" matches any value
Comps(cdata, carrier, ctype, csubtype, srv) ==
    SelectSeq(cdata, LAMBDA c :
        /\ (carrier = "*" \/ c.carrier = carrier)
        /\ (ctype = "*" \/ c.ctype = ctype)
        /\ (csubtype = "*" \/ c.csubtype = csubtype)
        /\ (srv = "*" \/ c.service = srv))

\* .map(|v| v.values.as_slice()).collect()
ValuesOf(comps) == [k \in 1..Len(comps) |-> comps[k].values]

\* variant: the services are not deduplicated
UniqueServices_All(comps, seen) == [k \in 1..Len(comps) |-> comps[k].service]

\* envcomps.iter().map(|c| c.service).unique(): first occurrences, in order
RECURSIVE UniqueServices(_, _)
UniqueServices(comps, seen) ==
    IF comps = <<>> THEN <<>>
    ELSE IF comps[1].service \in seen THEN UniqueServices(Tail(comps), seen)
         ELSE <<comps[1].service>>
              \o UniqueServices(Tail(comps), seen \cup {comps[1].service})

\* variant: the difference is not clamped
ClampAtZero_None(vec) == vec

\* .map(|&v| if v > 0.0 { v } else { 0.0 })
ClampAtZero(vec) == [ii \in 1..Len(vec) |-> IF RPos(vec[ii]) THEN vec[ii] ELSE RZero]

\* unbalanced_values of a service that has consumption
Unbalanced(envcomps, srv) ==
    LET consumed == Comps(envcomps, "*", "CONSUMO", "*", srv)
        produced == Comps(envcomps, "*", "PRODUCCION", "*", srv)
        unbalanced_values == veclistsum(ValuesOf(consumed))
    IN IF produced # <<>>
       THEN ClampAtZero(vecvecdif(unbalanced_values, veclistsum(ValuesOf(produced))))
       ELSE unbalanced_values

\* comments are sequences of text pieces, as in the factor rows
BalanceComment ==
    <<"Equilibrado de energia termica insitu consumida y sin produccion declarada">>

\* the closure of the map over the services: an Option<Component>
BalanceOf(envcomps, srv) ==
    IF Comps(envcomps, "*", "CONSUMO", "*", srv) = <<>> THEN None
    ELSE IF vecsum(Unbalanced(envcomps, srv)) = RZero THEN None
    ELSE Some(Component("MEDIOAMBIENTE", "PRODUCCION", "INSITU", srv,
                        Unbalanced(envcomps, srv), BalanceComment))

\* the Some values of the map, in the order of the services
RECURSIVE BalanceComps(_, _)
BalanceComps(envcomps, services) ==
    IF services = <<>> THEN <<>>
    ELSE BalanceOf(envcomps, services[1]) \o BalanceComps(envcomps, Tail(services))

fix_components(comps) ==
    LET envcomps == Comps(comps.cdata, "MEDIOAMBIENTE", "*", "*", "*")
        services == UniqueServices(envcomps, {})
    IN [comps EXCEPT !.cdata = @ \o BalanceComps(envcomps, services)]

(***************************************************************************)
(* components_by_service                                                   *)
(***************************************************************************)
\* .map(|c| c.values.iter().sum::<f32>()).sum::<f32>()
TotalOf(comps) == vecsum([k \in 1..Len(comps) |-> vecsum(comps[k].values)])

\* variant: the rows are pushed unscaled
Reassigned_Unscaled(pr_el_ndef, srv, F_pr_srv) ==
    [k \in 1..Len(pr_el_ndef) |->
        Component("ELECTRICIDAD", "PRODUCCION", "INSITU", srv,
                  pr_el_ndef[k].values, pr_el_ndef[k].comment)]

\* the production rows pushed for the service, one per row of pr_el_ndef
Reassigned(pr_el_ndef, srv, F_pr_srv) ==
    [k \in 1..Len(pr_el_ndef) |->
        Component("ELECTRICIDAD", "PRODUCCION", "INSITU", srv,
                  veckmul(pr_el_ndef[k].values, F_pr_srv),
                  pr_el_ndef[k].comment
                  \o <<"Produccion insitu proporcionalmente reasignada al servicio.">>)]

\* variant: the consumption of the service is not tested
ReassignedFor_AnyShare(cdata, srv) ==
    LET pr_el_ndef == Comps(cdata, "ELECTRICIDAD", "PRODUCCION", "INSITU", "NDEF")
        c_el_tot == TotalOf(Comps(cdata, "ELECTRICIDAD", "CONSUMO", "*", "*"))
        c_el_srv_tot == TotalOf(Comps(cdata, "ELECTRICIDAD", "CONSUMO", "*", srv))
    IN IF pr_el_ndef # <<>> /\ RPos(c_el_tot)
       THEN Reassigned(pr_el_ndef, srv, RDiv(c_el_srv_tot, c_el_tot))
       ELSE <<>>

\* the rows appended to the rows of the service
ReassignedFor(cdata, srv) ==
    LET pr_el_ndef == Comps(cdata, "ELECTRICIDAD", "PRODUCCION", "INSITU", "NDEF")
        c_el_tot == TotalOf(Comps(cdata, "ELECTRICIDAD", "CONSUMO", "*", "*"))
        c_el_srv_tot == TotalOf(Comps(cdata, "ELECTRICIDAD", "CONSUMO", "*", srv))
    IN IF pr_el_ndef # <<>> /\ RPos(c_el_tot) /\ RPos(c_el_srv_tot)
       THEN Reassigned(pr_el_ndef, srv, RDiv(c_el_srv_tot, c_el_tot))
       ELSE <<>>

\* variant: the reassigned rows come before the rows of the service
components_by_service_ReassignedFirst(comps, srv) ==
    LET cdata == ReassignedFor(comps.cdata, srv) \o Comps(comps.cdata, "*", "*", "*", srv)
        m1 == update_meta(comps.cmeta, "CTE_PERIMETRO", "NEARBY")
    IN [cdata |-> cdata, cmeta |-> update_meta(m1, "CTE_SERVICIO", srv)]

components_by_service(comps, srv) ==
    LET cdata == Comps(comps.cdata, "*", "*", "*", srv) \o ReassignedFor(comps.cdata, srv)
        m1 == update_meta(comps.cmeta, "CTE_PERIMETRO", "NEARBY")
    IN [cdata |-> cdata, cmeta |-> update_meta(m1, "CTE_SERVICIO", srv)]

(***************************************************************************)
(* wfactors_to_nearby                                                      *)
(***************************************************************************)
\* Meta::get_meta: the value of the first entry with that key, as an Option
get_meta(wmeta, key) ==
    LET I == {i \in 1..Len(wmeta) : wmeta[i].key = key}
    IN IF I = {} THEN None ELSE Some(wmeta[MinOf(I)].value)

\* carriers inside the nearby perimeter
CTE_NRBY == {"BIOMASA", "BIOMASADENSIFICADA", "RED1", "RED2", "MEDIOAMBIENTE"}

\* variant: the carriers of CTE_NRBY are converted like any other
ToNearbyRow_GridOnly(f) ==
    IF f.source = "INSITU" \/ f.source = "COGENERACION" THEN f
    ELSE Factor(f.carrier, f.source, f.dest, f.step, 0, f.ren + f.nren,
                <<"Perimetro nearby: ">> \o f.comment)

\* the body of the loop: the row pushed for f
ToNearbyRow(f) ==
    IF f.source = "INSITU" \/ f.source = "COGENERACION" \/ f.carrier \in CTE_NRBY
    THEN f
    ELSE Factor(f.carrier, f.source, f.dest, f.step, 0, f.ren + f.nren,
                <<"Perimetro nearby: ">> \o f.comment)

wfactors_to_nearby(wf) ==
    [wmeta |-> Append(wf.wmeta, [key |-> "CTE_PERIMETRO", value |-> "NEARBY"]),
     wdata |-> [i \in 1..Len(wf.wdata) |-> ToNearbyRow(wf.wdata[i])]]

(***************************************************************************)
(* strip_wfactors                                                          *)
(***************************************************************************)
\* wdata.retain(|f| wf_carriers.contains(&f.carrier))
RetainCarriers(wdata, wf_carriers) ==
    SelectSeq(wdata, LAMBDA f : f.carrier \in wf_carriers)

\* wdata.retain(|f| f.source != Source::COGENERACION || has_cogen)
RetainCogen(wdata, has_cogen) ==
    SelectSeq(wdata, LAMBDA f : f.source # "COGENERACION" \/ has_cogen)

\* wdata.retain(|f| f.dest != Dest::A_NEPB || has_nepb)
RetainNepb(wdata, has_nepb) ==
    SelectSeq(wdata, LAMBDA f : f.dest # "A_NEPB" \/ has_nepb)

\* variant: the on-site rows of every carrier are tested
RetainElecInsitu_AnyCarrier(wdata, has_elec_insitu) ==
    SelectSeq(wdata, LAMBDA f : f.source # "INSITU" \/ has_elec_insitu)

\* wdata.retain(|f| carrier != ELECTRICIDAD || source != INSITU || has_elec_insitu)
RetainElecInsitu(wdata, has_elec_insitu) ==
    SelectSeq(wdata, LAMBDA f :
        f.carrier # "ELECTRICIDAD" \/ f.source # "INSITU" \/ has_elec_insitu)

strip_wfactors(wf, comps) ==
    LET wf_carriers == {comps.cdata[k].carrier : k \in DOMAIN comps.cdata}
        has_cogen == \E k \in DOMAIN comps.cdata : comps.cdata[k].csubtype = "COGENERACION"
        has_nepb == \E k \in DOMAIN comps.cdata : comps.cdata[k].csubtype = "NEPB"
        has_elec_insitu ==
            \E k \in DOMAIN comps.cdata :
                comps.cdata[k].carrier = "ELECTRICIDAD" /\ comps.cdata[k].csubtype = "INSITU"
    IN [wf EXCEPT !.wdata =
           RetainElecInsitu(
               RetainNepb(RetainCogen(RetainCarriers(@, wf_carriers), has_cogen), has_nepb),
               has_elec_insitu)]

(***************************************************************************)
(* Text and f32 values of UsedEnergy (types/used_energy.rs)                *)
(*                                                                         *)
(* A text is a sequence of tokens: the separators ",", " " and "#", words, *)
(* integers, and decimal numbers with two decimals (num is the number in   *)
(* hundredths).  An f32 is [m, k], the value m / 2^k with |m| <= 2^24.     *)
(***************************************************************************)
Tok(kind, word, num) == [kind |-> kind, word |-> word, num |-> num]

Comma == Tok("sep", ",", 0)

Space == Tok("sep", " ", 0)

Hash == Tok("sep", "#", 0)

Word(w) == Tok("word", w, 0)

IntTok(i) == Tok("int", "", i)

DecTok(n) == Tok("dec", "", n)

RECURSIVE Pow2(_)
Pow2(k) == IF k = 0 THEN 1 ELSE 2 * Pow2(k - 1)

\* a / b (a >= 0, b > 0) rounded to the nearest integer, ties to even
RoundHalfEven(a, b) ==
    LET q == a \div b
        r == a % b
    IN IF r > b - r THEN q + 1
       ELSE IF r < b - r THEN q
       ELSE IF q % 2 = 0 THEN q ELSE q + 1

\* a, doubled until it is at least 100 * 2^23, with the number of doublings
RECURSIVE UpScale(_, _)
UpScale(a, k) == IF a >= 838860800 THEN <<a, k>> ELSE UpScale(2 * a, k + 1)

\* str::parse::<f32> of a number given in hundredths: the nearest f32
F32Of(n) ==
    LET a == Abs(n)
        sgn == IF n < 0 THEN -1 ELSE 1
    IN IF a = 0 THEN [m |-> 0, k |-> 0]
       ELSE IF a >= 1677721600
            THEN [m |-> sgn * RoundHalfEven(a, 200), k |-> -1]
       ELSE [m |-> sgn * RoundHalfEven(UpScale(a, 0)[1], 100), k |-> UpScale(a, 0)[2]]

\* format!("{:.2}", v): the hundredths printed for an f32
Hundredths(v) ==
    LET sgn == IF v.m < 0 THEN -1 ELSE 1
    IN IF v.k >= 0 THEN sgn * RoundHalfEven(Abs(v.m) * 100, Pow2(v.k))
       ELSE v.m * 100 * Pow2(-v.k)

\* str::trim
RECURSIVE TrimStart(_)
TrimStart(str) ==
    IF str # <<>> /\ Head(str) = Space THEN TrimStart(Tail(str)) ELSE str

RECURSIVE TrimEnd(_)
TrimEnd(str) ==
    IF str # <<>> /\ str[Len(str)] = Space
    THEN TrimEnd(SubSeq(str, 1, Len(str) - 1)) ELSE str

Trim(str) == TrimEnd(TrimStart(str))

\* position of the first token sep of str, 0 if there is none
FirstAt(str, sep) ==
    IF \E i \in DOMAIN str : str[i] = sep
    THEN MinOf({i \in DOMAIN str : str[i] = sep}) ELSE 0

\* str.splitn(2, sep)
SplitN2(str, sep) ==
    IF FirstAt(str, sep) = 0 THEN <<str>>
    ELSE <<SubSeq(str, 1, FirstAt(str, sep) - 1),
           SubSeq(str, FirstAt(str, sep) + 1, Len(str))>>

\* str.split(sep)
RECURSIVE Split(_, _)
Split(str, sep) ==
    IF FirstAt(str, sep) = 0 THEN <<str>>
    ELSE <<SubSeq(str, 1, FirstAt(str, sep) - 1)>>
         \o Split(SubSeq(str, FirstAt(str, sep) + 1, Len(str)), sep)

\* .map(str::trim)
TrimAll(items) == [i \in DOMAIN items |-> Trim(items[i])]

\* strs.join(", ")
RECURSIVE Join(_)
Join(strs) ==
    IF strs = <<>> THEN <<>>
    ELSE IF Len(strs) = 1 THEN strs[1]
    ELSE strs[1] \o <<Comma, Space>> \o Join(Tail(strs))

(***************************************************************************)
(* UsedEnergy: Display and FromStr                                         *)
(***************************************************************************)
UsedEnergy(id, carrier, csubtype, srv, values, comment) ==
    [id |-> id, carrier |-> carrier, csubtype |-> csubtype, service |-> srv,
     values |-> values, comment |-> comment]

\* names the enums parse from
CarrierWords ==
    {"ELECTRICIDAD", "MEDIOAMBIENTE", "BIOCARBURANTE", "BIOMASA", "BIOMASADENSIFICADA",
     "CARBON", "GASNATURAL", "GASOLEO", "GLP", "RED1", "RED2"}

CSubtypeWords == {"EPB", "NEPB", "INSITU", "COGENERACION"}

ServiceWords == {"ACS", "CAL", "REF", "VEN", "ILU", "HU", "DHU", "BAC", "NDEF"}

\* Service::default()
DefaultService == "NDEF"

\* impl fmt::Display for UsedEnergy
Display(ue) ==
    LET valuelist == Join([i \in DOMAIN ue.values |-> <<DecTok(Hundredths(ue.values[i]))>>])
        comment == IF ue.comment # <<>> THEN <<Space, Hash, Space>> \o ue.comment ELSE <<>>
    IN <<IntTok(ue.id), Comma, Space, Word(ue.carrier), Comma, Space,
         Word("CONSUMO"), Comma, Space, Word(ue.csubtype), Comma, Space,
         Word(ue.service), Comma, Space>> \o valuelist \o comment

\* Result<UsedEnergy, EpbdError>, or the panic of an index out of bounds
Parsed(ue) == [ok |-> TRUE, panic |-> FALSE, value |-> <<ue>>]

ParseError == [ok |-> FALSE, panic |-> FALSE, value |-> <<>>]

IndexPanic == [ok |-> FALSE, panic |-> TRUE, value |-> <<>>]

\* an item that is one word of a set of names
IsWordOf(item, names) ==
    Len(item) = 1 /\ item[1].kind = "word" /\ item[1].word \in names

\* an item that parses as i32
IsInt(item) == Len(item) = 1 /\ item[1].kind = "int"

\* an item that parses as f32
IsNumber(item) == Len(item) = 1 /\ item[1].kind \in {"int", "dec"}

\* v.parse::<f32>() of an item that is a number
NumberOf(item) ==
    IF item[1].kind = "dec" THEN F32Of(item[1].num) ELSE F32Of(100 * item[1].num)

\* impl str::FromStr for UsedEnergy
FromStr(str) ==
    LET parts == TrimAll(SplitN2(Trim(str), Hash))
        comment == IF Len(parts) >= 2 THEN parts[2] ELSE <<>>
        items == TrimAll(Split(parts[1], Comma))
        baseidx == IF IsInt(items[1]) THEN 1 ELSE 0
        id == IF IsInt(items[1]) THEN items[1][1].num ELSE 0
        hasservice == IsWordOf(items[baseidx + 4], ServiceWords)
        valuesidx == IF hasservice THEN baseidx + 5 ELSE baseidx + 4
        srv == IF hasservice THEN items[baseidx + 4][1].word ELSE DefaultService
    IN IF Len(items) < 4 THEN ParseError
       ELSE IF ~IsWordOf(items[baseidx + 1], CarrierWords) THEN ParseError
       ELSE IF ~IsWordOf(items[baseidx + 3], CSubtypeWords) THEN ParseError
       ELSE IF ~(items[baseidx + 2] = <<Word("CONSUMO")>>
                 /\ items[baseidx + 3][1].word \in {"EPB", "NEPB"}) THEN ParseError
       ELSE IF baseidx + 4 > Len(items) THEN IndexPanic
       ELSE IF \E i \in valuesidx..Len(items) : ~IsNumber(items[i]) THEN ParseError
       ELSE Parsed(UsedEnergy(id, items[baseidx + 1][1].word, items[baseidx + 3][1].word,
                              srv,
                              [i \in 1..(Len(items) - valuesidx + 1) |->
                                  NumberOf(items[valuesidx + i - 1])],
                              comment))

(***************************************************************************)
(* fix_components in single precision: the values are f32, every sum and   *)
(* difference is rounded to the nearest f32 (ties to even)                 *)
(***************************************************************************)
\* a and the number of doublings of a that bring it to at least 2^23 * d
RECURSIVE ScaleUp(_, _, _)
ScaleUp(a, d, k) == IF a >= 8388608 * d THEN <<a, k>> ELSE ScaleUp(2 * a, d, k + 1)

\* d and the number of doublings of d that bring a below 2^24 * d
RECURSIVE ScaleDown(_, _, _)
ScaleDown(a, d, k) == IF a < 16777216 * d THEN <<d, k>> ELSE ScaleDown(a, 2 * d, k + 1)

\* the f32 nearest to the rational x (24 bits of mantissa, ties to even)
F32Round(x) ==
    LET a == Abs(x[1])
        d == x[2]
        sgn == IF x[1] < 0 THEN -1 ELSE 1
        up == ScaleUp(a, d, 0)
        down == ScaleDown(a, d, 0)
    IN IF a = 0 THEN RZero
       ELSE IF a >= 16777216 * d
            THEN Rat(sgn * RoundHalfEven(a, down[1]) * Pow2(down[2]), 1)
       ELSE Rat(sgn * RoundHalfEven(up[1], d), Pow2(up[2]))

\* f32 + f32
FAdd(x, y) == F32Round(RAdd(x, y))

\* f32 - f32
FSub(x, y) == F32Round(RSub(x, y))

\* the fold of veclistsum, in f32
RECURSIVE VecListFold_f32(_, _, _, _)
VecListFold_f32(veclist, k, acc, maxlen) ==
    IF k > Len(veclist) THEN acc
    ELSE VecListFold_f32(veclist, k + 1,
             [idx \in 1..maxlen |-> FAdd(GetOr0(acc, idx), GetOr0(veclist[k], idx))],
             maxlen)

veclistsum_f32(veclist) == VecListFold_f32(veclist, 1, <<RZero>>, MaxLenOf(veclist))

vecvecdif_f32(vec1, vec2) == [ii \in 1..Len(vec1) |-> FSub(vec1[ii], GetOr0(vec2, ii))]

\* iter().sum::<f32>(): the fold from 0.0, left to right
RECURSIVE SumFrom_f32(_, _, _)
SumFrom_f32(vec, k, acc) ==
    IF k > Len(vec) THEN acc ELSE SumFrom_f32(vec, k + 1, FAdd(acc, vec[k]))

\* unbalanced_values of a service that has consumption
Unbalanced_f32(envcomps, srv) ==
    LET consumed == Comps(envcomps, "*", "CONSUMO", "*", srv)
        produced == Comps(envcomps, "*", "PRODUCCION", "*", srv)
        unbalanced_values == veclistsum_f32(ValuesOf(consumed))
    IN IF produced # <<>>
       THEN ClampAtZero(vecvecdif_f32(unbalanced_values, veclistsum_f32(ValuesOf(produced))))
       ELSE unbalanced_values

BalanceOf_f32(envcomps, srv) ==
    IF Comps(envcomps, "*", "CONSUMO", "*", srv) = <<>> THEN None
    ELSE IF SumFrom_f32(Unbalanced_f32(envcomps, srv), 1, RZero) = RZero THEN None
    ELSE Some(Component("MEDIOAMBIENTE", "PRODUCCION", "INSITU", srv,
                        Unbalanced_f32(envcomps, srv), BalanceComment))

RECURSIVE BalanceComps_f32(_, _)
BalanceComps_f32(envcomps, services) ==
    IF services = <<>> THEN <<>>
    ELSE BalanceOf_f32(envcomps, services[1]) \o BalanceComps_f32(envcomps, Tail(services))

fix_components_f32(comps) ==
    LET envcomps == Comps(comps.cdata, "MEDIOAMBIENTE", "*", "*", "*")
        services == UniqueServices(envcomps, {})
    IN [comps EXCEPT !.cdata = @ \o BalanceComps_f32(envcomps, services)]

(***************************************************************************)
(* The run on a factor table: rows are loaded, then parse_wfactors         *)
(* resolves the user values and completes the table, then the engine is    *)
(* applied once more to its own output.                                    *)
(***************************************************************************)
\* A row as the text gives it (no comment)
Row(c, s, d, st, ren, nren) == Factor(c, s, d, st, ren, nren, <<>>)

\* Rows a table is loaded from
FactorPool ==
    { Row("ELECTRICIDAD", "RED", "SUMINISTRO", "A", 5000, 20000),
      Row("GASNATURAL", "RED", "SUMINISTRO", "A", 0, 11000),
      Row("GASNATURAL", "COGENERACION", "SUMINISTRO", "A", 0, 0),
      Row("ELECTRICIDAD", "INSITU", "SUMINISTRO", "B", 10000, 0),
      Row("ELECTRICIDAD", "INSITU", "A_RED", "A", 9000, 1000),
      Row("ELECTRICIDAD", "INSITU", "A_NEPB", "A", 9000, 1000),
      Row("ELECTRICIDAD", "COGENERACION", "A_RED", "A", 3000, 22000),
      Row("MEDIOAMBIENTE", "INSITU", "SUMINISTRO", "A", 8000, 2000),
      Row("RED1", "RED", "SUMINISTRO", "A", 1000, 12000) }

NoFactors == [wmeta |-> <<>>, wdata |-> <<>>]

\* a call that gives none of the optional values
NoArgs == [cogen |-> None, cogennepb |-> None, red1 |-> None, red2 |-> None]

\* The optional arguments cogen, cogennepb, red1, red2 of a call
UserArgs ==
    { NoArgs,
      [cogen |-> Some(RenNren(2000, 21000)), cogennepb |-> Some(RenNren(1000, 24000)),
       red1 |-> Some(RenNren(5000, 5000)), red2 |-> Some(RenNren(4000, 6000))] }

NoUser == find_user_wfactors(NoFactors, None, None, None, None)

NoComponents == [cmeta |-> <<>>, cdata |-> <<>>]

\* no service has been partitioned
NoPartition == <<>>

(***************************************************************************)
(* Values of the variables a run does not use                              *)
(***************************************************************************)
FactorsIdle ==
    /\ wfactors = NoFactors
    /\ args = NoArgs
    /\ user = NoUser
    /\ stripnepb = FALSE
    /\ fixed = Err("", "")
    /\ refixed = Err("", "")

ComponentsIdle ==
    /\ components = NoComponents
    /\ balanced = NoComponents
    /\ rebalanced = NoComponents
    /\ service = "NDEF"
    /\ byservice = NoPartition

UserIdle == updated = NoFactors

NearbyIdle == nearby = NoFactors

StripIdle == stripped = NoFactors

LocIdle == loc = "" /\ located = Err("", "")

VecIdle ==
    /\ operand1 = <<>>
    /\ operand2 = <<>>
    /\ vecres = <<>>
    /\ vectors = <<>>
    /\ listsum = None

UeIdle == uefields = <<>> /\ uetext = <<>> /\ ueparsed = ParseError /\ ueout = None

AuxIdle == UserIdle /\ NearbyIdle /\ StripIdle /\ LocIdle /\ VecIdle /\ UeIdle

InitFactors ==
    /\ pc = "load"
    /\ wfactors = NoFactors
    /\ args = NoArgs
    /\ user = NoUser
    /\ stripnepb = FALSE
    /\ fixed = Err("", "")
    /\ refixed = Err("", "")
    /\ ComponentsIdle
    /\ AuxIdle

\* one more row of the table is read
LoadFactor(f) ==
    /\ pc = "load"
    /\ Len(wfactors.wdata) < MaxRows
    /\ wfactors' = [wfactors EXCEPT !.wdata = Append(@, f)]
    /\ UNCHANGED <<pc, args, user, stripnepb, fixed, refixed,
                   components, balanced, rebalanced, service, byservice, aux>>

\* parse_wfactors: find_user_wfactors, update_user_wfactors, fix_wfactors
ParseWfactors(a, strip) ==
    /\ pc = "load"
    /\ user' = find_user_wfactors(wfactors, a.cogen, a.cogennepb, a.red1, a.red2)
    /\ fixed' = parse_wfactors(wfactors, a.cogen, a.cogennepb, a.red1, a.red2, strip)
    /\ args' = a
    /\ stripnepb' = strip
    /\ pc' = "fixed"
    /\ UNCHANGED <<wfactors, refixed, components, balanced, rebalanced, service, byservice, aux>>

\* fix_wfactors on the table it returned, same user values and flag
RefixWfactors ==
    /\ pc = "fixed"
    /\ fixed.ok
    /\ refixed' = fix_wfactors([wmeta |-> fixed.wmeta, wdata |-> fixed.wdata],
                               user, stripnepb)
    /\ pc' = "refixed"
    /\ UNCHANGED <<wfactors, args, user, stripnepb, fixed,
                   components, balanced, rebalanced, service, byservice, aux>>

NextFactors ==
    \/ \E f \in FactorPool : LoadFactor(f)
    \/ \E a \in UserArgs, strip \in BOOLEAN : ParseWfactors(a, strip)
    \/ RefixWfactors

SpecFactors == InitFactors /\ [][NextFactors]_vars

(***************************************************************************)
(* The run on a component list: the list is read, balanced by              *)
(* fix_components (parse_components), then partitioned service by service  *)
(***************************************************************************)
\* a series of whole energy values
Series(ints) == [t \in 1..Len(ints) |-> Rat(ints[t], 1)]

Comp(carrier, ctype, csubtype, srv, ints) ==
    Component(carrier, ctype, csubtype, srv, Series(ints), <<>>)

Services == {"NDEF", "ACS", "CAL"}

\* the components a list is built from: series of different lengths, with
\* zero and negative values
ComponentPool ==
    { Comp("MEDIOAMBIENTE", "CONSUMO", "EPB", "CAL", <<10, 10>>),
      Comp("MEDIOAMBIENTE", "PRODUCCION", "INSITU", "CAL", <<4, 12>>),
      Comp("MEDIOAMBIENTE", "CONSUMO", "EPB", "ACS", <<3>>),
      Comp("MEDIOAMBIENTE", "PRODUCCION", "INSITU", "ACS", <<5, 1, 2>>),
      Comp("MEDIOAMBIENTE", "CONSUMO", "EPB", "CAL", <<5, -5>>),
      Comp("ELECTRICIDAD", "PRODUCCION", "INSITU", "NDEF", <<6, 3>>),
      Comp("ELECTRICIDAD", "CONSUMO", "EPB", "ACS", <<2, 1>>),
      Comp("ELECTRICIDAD", "CONSUMO", "EPB", "CAL", <<4, 2>>),
      Comp("ELECTRICIDAD", "CONSUMO", "EPB", "NDEF", <<1, 0>>),
      Comp("ELECTRICIDAD", "CONSUMO", "EPB", "CAL", <<0, -1>>),
      Comp("ELECTRICIDAD", "CONSUMO", "NEPB", "ACS", <<0, 0>>) }

InitComponents ==
    /\ pc = "cload"
    /\ FactorsIdle
    /\ components = NoComponents
    /\ balanced = NoComponents
    /\ rebalanced = NoComponents
    /\ service = "NDEF"
    /\ byservice = NoPartition
    /\ AuxIdle

\* one more component of the list is read
LoadComponent(c) ==
    /\ pc = "cload"
    /\ Len(components.cdata) < MaxComps
    /\ components' = [components EXCEPT !.cdata = Append(@, c)]
    /\ UNCHANGED <<pc, wfactors, args, user, stripnepb, fixed, refixed,
                   balanced, rebalanced, service, byservice, aux>>

\* parse_components: fix_components on the parsed list
ParseComponents ==
    /\ pc = "cload"
    /\ balanced' = fix_components(components)
    /\ pc' = "balanced"
    /\ UNCHANGED <<wfactors, args, user, stripnepb, fixed, refixed,
                   components, rebalanced, service, byservice, aux>>

\* components_by_service on the balanced list, for a service not yet taken
ComponentsByService(srv) ==
    /\ pc \in {"balanced", "partitioned"}
    /\ srv \notin DOMAIN byservice
    /\ byservice' = (srv :> components_by_service(balanced, srv)) @@ byservice
    /\ service' = srv
    /\ pc' = "partitioned"
    /\ UNCHANGED <<wfactors, args, user, stripnepb, fixed, refixed,
                   components, balanced, rebalanced, aux>>

NextComponents ==
    \/ \E c \in ComponentPool : LoadComponent(c)
    \/ ParseComponents
    \/ \E srv \in Services : ComponentsByService(srv)

SpecComponents == InitComponents /\ [][NextComponents]_vars

(***************************************************************************)
(* The conversion of a table to the nearby perimeter: the table is read    *)
(* (metadata, then rows) and converted by wfactors_to_nearby               *)
(***************************************************************************)
\* metadata a table comes with
NearbyMetas ==
    { <<>>,
      <<[key |-> "CTE_PERIMETRO", value |-> "DISTANT"]>>,
      <<[key |-> "CTE_PERIMETRO", value |-> "NEARBY"]>>,
      <<[key |-> "CTE_LOCALIZACION", value |-> "PENINSULA"]>> }

NearbyPool ==
    { Row("ELECTRICIDAD", "RED", "SUMINISTRO", "A", 5000, 20000),
      Row("ELECTRICIDAD", "INSITU", "SUMINISTRO", "A", 10000, 0),
      Row("ELECTRICIDAD", "COGENERACION", "A_RED", "A", 3000, 22000),
      Row("GASNATURAL", "RED", "SUMINISTRO", "A", 500, 11000),
      Row("BIOMASA", "RED", "SUMINISTRO", "A", 10000, 500),
      Row("RED1", "RED", "SUMINISTRO", "A", 0, 13000),
      Row("MEDIOAMBIENTE", "RED", "SUMINISTRO", "A", 10000, 0) }

InitNearby ==
    /\ pc = "nload"
    /\ wfactors \in {[wmeta |-> m, wdata |-> <<>>] : m \in NearbyMetas}
    /\ args = NoArgs
    /\ user = NoUser
    /\ stripnepb = FALSE
    /\ fixed = Err("", "")
    /\ refixed = Err("", "")
    /\ ComponentsIdle
    /\ AuxIdle

\* one more row of the table is read
LoadNearbyFactor(f) ==
    /\ pc = "nload"
    /\ Len(wfactors.wdata) < MaxRows
    /\ wfactors' = [wfactors EXCEPT !.wdata = Append(@, f)]
    /\ UNCHANGED <<pc, args, user, stripnepb, fixed, refixed, compVars, aux>>

WfactorsToNearby ==
    /\ pc = "nload"
    /\ nearby' = wfactors_to_nearby(wfactors)
    /\ pc' = "nearby"
    /\ UNCHANGED <<factorVars, compVars, updated, stripped, locVars, vecVars, ueVars>>

NextNearby ==
    \/ \E f \in NearbyPool : LoadNearbyFactor(f)
    \/ WfactorsToNearby

SpecNearby == InitNearby /\ [][NextNearby]_vars

(***************************************************************************)
(* The resolution of the user values: the table is read (metadata, then    *)
(* rows), the values are resolved and written to the metadata              *)
(***************************************************************************)
MetaEntry(key, ren, nren) == [key |-> key, value |-> RenNren(ren, nren)]

\* metadata a table comes with
UserMetas ==
    { <<>>,
      <<MetaEntry("CTE_RED1", 2000, 11000)>>,
      <<MetaEntry("CTE_COGEN", 1000, 20000), MetaEntry("CTE_COGEN", 1500, 20500)>>,
      <<MetaEntry("CTE_COGENNEPB", 500, 24000), MetaEntry("CTE_RED2", 3000, 10000)>> }

UserPool ==
    { Row("ELECTRICIDAD", "COGENERACION", "A_RED", "A", 3000, 22000),
      Row("ELECTRICIDAD", "COGENERACION", "A_RED", "B", 1100, 2200),
      Row("GASNATURAL", "COGENERACION", "A_RED", "A", 4000, 21000),
      Row("ELECTRICIDAD", "COGENERACION", "A_NEPB", "A", 2000, 23000),
      Row("ELECTRICIDAD", "COGENERACION", "SUMINISTRO", "A", 0, 0),
      Row("RED1", "RED", "SUMINISTRO", "A", 1000, 12000),
      Row("RED2", "RED", "SUMINISTRO", "A", 2500, 10500) }

\* the optional arguments of a call
UserCalls ==
    { NoArgs,
      [cogen |-> Some(RenNren(2000, 21000)), cogennepb |-> None,
       red1 |-> Some(RenNren(5000, 5000)), red2 |-> None],
      [cogen |-> None, cogennepb |-> Some(RenNren(100, 24500)),
       red1 |-> None, red2 |-> Some(RenNren(6000, 4000))],
      [cogen |-> Some(RenNren(2000, 21000)), cogennepb |-> Some(RenNren(100, 24500)),
       red1 |-> Some(RenNren(5000, 5000)), red2 |-> Some(RenNren(6000, 4000))] }

InitUser ==
    /\ pc = "uload"
    /\ wfactors \in {[wmeta |-> m, wdata |-> <<>>] : m \in UserMetas}
    /\ args = NoArgs
    /\ user = NoUser
    /\ stripnepb = FALSE
    /\ fixed = Err("", "")
    /\ refixed = Err("", "")
    /\ ComponentsIdle
    /\ AuxIdle

\* one more row of the table is read
LoadUserFactor(f) ==
    /\ pc = "uload"
    /\ Len(wfactors.wdata) < MaxRows
    /\ wfactors' = [wfactors EXCEPT !.wdata = Append(@, f)]
    /\ UNCHANGED <<pc, args, user, stripnepb, fixed, refixed, compVars, aux>>

\* find_user_wfactors, then update_user_wfactors with the values found
FindUserWfactors(a) ==
    /\ pc = "uload"
    /\ args' = a
    /\ user' = find_user_wfactors(wfactors, a.cogen, a.cogennepb, a.red1, a.red2)
    /\ updated' = update_user_wfactors(wfactors,
                      find_user_wfactors(wfactors, a.cogen, a.cogennepb, a.red1, a.red2))
    /\ pc' = "resolved"
    /\ UNCHANGED <<wfactors, stripnepb, fixed, refixed, compVars,
                   nearby, stripped, locVars, vecVars, ueVars>>

NextUser ==
    \/ \E f \in UserPool : LoadUserFactor(f)
    \/ \E a \in UserCalls : FindUserWfactors(a)

SpecUser == InitUser /\ [][NextUser]_vars

(***************************************************************************)
(* The vector operations: the operands are built element by element and    *)
(* the operations applied                                                  *)
(***************************************************************************)
\* values of the elements
Elements == {Rat(-1, 1), Rat(0, 1), Rat(2, 1)}

InitVecOps ==
    /\ pc = "operands"
    /\ FactorsIdle
    /\ ComponentsIdle
    /\ AuxIdle

PushOperand1(x) ==
    /\ pc = "operands"
    /\ Len(operand1) < MaxLen
    /\ operand1' = Append(operand1, x)
    /\ UNCHANGED <<pc, factorVars, compVars, updated, nearby, stripped, locVars,
                   operand2, vecres, vectors, listsum, ueVars>>

PushOperand2(x) ==
    /\ pc = "operands"
    /\ Len(operand2) < MaxLen
    /\ operand2' = Append(operand2, x)
    /\ UNCHANGED <<pc, factorVars, compVars, updated, nearby, stripped, locVars,
                   operand1, vecres, vectors, listsum, ueVars>>

\* the four two-operand operations on the operands
ApplyVecVec ==
    /\ pc = "operands"
    /\ vecres' = [sum |-> vecvecsum(operand1, operand2),
                  dif |-> vecvecdif(operand1, operand2),
                  mul |-> vecvecmul(operand1, operand2),
                  min |-> vecvecmin(operand1, operand2)]
    /\ pc' = "applied"
    /\ UNCHANGED <<factorVars, compVars, updated, nearby, stripped, locVars,
                   operand1, operand2, vectors, listsum, ueVars>>

NextVecOps ==
    \/ \E x \in Elements : PushOperand1(x)
    \/ \E x \in Elements : PushOperand2(x)
    \/ ApplyVecVec

SpecVecOps == InitVecOps /\ [][NextVecOps]_vars

\* the vectors of up to MaxLen elements
VectorsUpTo(n) == UNION {[1..k -> Elements] : k \in 0..n}

InitVecList ==
    /\ pc = "vectors"
    /\ FactorsIdle
    /\ ComponentsIdle
    /\ AuxIdle

PushVector(v) ==
    /\ pc = "vectors"
    /\ Len(vectors) < MaxVectors
    /\ vectors' = Append(vectors, v)
    /\ UNCHANGED <<pc, factorVars, compVars, updated, nearby, stripped, locVars,
                   operand1, operand2, vecres, listsum, ueVars>>

ApplyVecListSum ==
    /\ pc = "vectors"
    /\ listsum' = Some(veclistsum(vectors))
    /\ pc' = "summed"
    /\ UNCHANGED <<factorVars, compVars, updated, nearby, stripped, locVars,
                   operand1, operand2, vecres, vectors, ueVars>>

NextVecList ==
    \/ \E v \in VectorsUpTo(MaxLen) : PushVector(v)
    \/ ApplyVecListSum

SpecVecList == InitVecList /\ [][NextVecList]_vars

(***************************************************************************)
(* The pruning of a table against a component list: the table is read and  *)
(* strip_wfactors applied with the components                              *)
(***************************************************************************)
ElecEpb == Comp("ELECTRICIDAD", "CONSUMO", "EPB", "NDEF", <<1>>)

ElecInsitu == Comp("ELECTRICIDAD", "PRODUCCION", "INSITU", "NDEF", <<1>>)

ElecCogen == Comp("ELECTRICIDAD", "PRODUCCION", "COGENERACION", "NDEF", <<1>>)

GasEpb == Comp("GASNATURAL", "CONSUMO", "EPB", "CAL", <<1>>)

GasNepb == Comp("GASNATURAL", "CONSUMO", "NEPB", "NDEF", <<1>>)

AmbientInsitu == Comp("MEDIOAMBIENTE", "PRODUCCION", "INSITU", "CAL", <<1>>)

\* the component lists a table is pruned against
StripComponents ==
    { <<>>,
      <<ElecEpb>>,
      <<ElecEpb, ElecInsitu>>,
      <<ElecEpb, AmbientInsitu>>,
      <<GasEpb, ElecCogen>>,
      <<GasNepb>>,
      <<ElecEpb, GasNepb, ElecInsitu, ElecCogen>> }

StripPool ==
    { Row("ELECTRICIDAD", "RED", "SUMINISTRO", "A", 5000, 20000),
      Row("ELECTRICIDAD", "INSITU", "SUMINISTRO", "A", 10000, 0),
      Row("ELECTRICIDAD", "COGENERACION", "A_RED", "A", 3000, 22000),
      Row("ELECTRICIDAD", "INSITU", "A_NEPB", "A", 10000, 0),
      Row("GASNATURAL", "RED", "SUMINISTRO", "A", 500, 11000),
      Row("MEDIOAMBIENTE", "INSITU", "SUMINISTRO", "A", 10000, 0) }

StripMetas == {<<>>, <<[key |-> "CTE_LOCALIZACION", value |-> "PENINSULA"]>>}

InitStrip ==
    /\ pc = "sload"
    /\ wfactors \in {[wmeta |-> m, wdata |-> <<>>] : m \in StripMetas}
    /\ args = NoArgs
    /\ user = NoUser
    /\ stripnepb = FALSE
    /\ fixed = Err("", "")
    /\ refixed = Err("", "")
    /\ components \in {[cmeta |-> <<>>, cdata |-> l] : l \in StripComponents}
    /\ balanced = NoComponents
    /\ rebalanced = NoComponents
    /\ service = "NDEF"
    /\ byservice = NoPartition
    /\ AuxIdle

\* one more row of the table is read
LoadStripFactor(f) ==
    /\ pc = "sload"
    /\ Len(wfactors.wdata) < MaxRows
    /\ wfactors' = [wfactors EXCEPT !.wdata = Append(@, f)]
    /\ UNCHANGED <<pc, args, user, stripnepb, fixed, refixed, compVars, aux>>

StripWfactors ==
    /\ pc = "sload"
    /\ stripped' = strip_wfactors(wfactors, components)
    /\ pc' = "stripped"
    /\ UNCHANGED <<factorVars, compVars, updated, nearby, locVars, vecVars, ueVars>>

NextStrip ==
    \/ \E f \in StripPool : LoadStripFactor(f)
    \/ StripWfactors

SpecStrip == InitStrip /\ [][NextStrip]_vars

(***************************************************************************)
(* new_wfactors: the table of a location, completed                        *)
(***************************************************************************)
\* the factor tables of the locations (electricity from the grid differs)
CTE_FP_PENINSULA ==
    [wmeta |-> <<[key |-> "CTE_LOCALIZACION", value |-> "PENINSULA"]>>,
     wdata |-> <<Row("ELECTRICIDAD", "RED", "SUMINISTRO", "A", 4140, 19540),
                 Row("GASNATURAL", "RED", "SUMINISTRO", "A", 50, 11900)>>]

CTE_FP_BALEARES ==
    [wmeta |-> <<[key |-> "CTE_LOCALIZACION", value |-> "BALEARES"]>>,
     wdata |-> <<Row("ELECTRICIDAD", "RED", "SUMINISTRO", "A", 820, 29680),
                 Row("GASNATURAL", "RED", "SUMINISTRO", "A", 50, 11900)>>]

CTE_FP_CANARIAS ==
    [wmeta |-> <<[key |-> "CTE_LOCALIZACION", value |-> "CANARIAS"]>>,
     wdata |-> <<Row("ELECTRICIDAD", "RED", "SUMINISTRO", "A", 700, 29240),
                 Row("GASNATURAL", "RED", "SUMINISTRO", "A", 50, 11900)>>]

CTE_FP_CEUTAMELILLA ==
    [wmeta |-> <<[key |-> "CTE_LOCALIZACION", value |-> "CEUTAMELILLA"]>>,
     wdata |-> <<Row("ELECTRICIDAD", "RED", "SUMINISTRO", "A", 720, 27180),
                 Row("GASNATURAL", "RED", "SUMINISTRO", "A", 50, 11900)>>]

\* bail!("Localizacion \"{}\" desconocida al generar factores de paso", loc)
UnknownLocation(l) ==
    [ok |-> FALSE, wmeta |-> <<>>, wdata |-> <<>>,
     err |-> [message |-> <<"Localizacion \"", l,
                            "\" desconocida al generar factores de paso">>]]

\* variant: upper-case form of a location name
Canonical(l) ==
    CASE l \in {"peninsula", "Peninsula"} -> "PENINSULA"
      [] l = "canarias" -> "CANARIAS"
      [] OTHER -> l

\* variant: the location is matched whatever its case
new_wfactors_AnyCase(l, cogen, cogennepb, red1, red2, strip) ==
    CASE Canonical(l) = "PENINSULA" ->
            parse_wfactors(CTE_FP_PENINSULA, cogen, cogennepb, red1, red2, strip)
      [] Canonical(l) = "BALEARES" ->
            parse_wfactors(CTE_FP_BALEARES, cogen, cogennepb, red1, red2, strip)
      [] Canonical(l) = "CANARIAS" ->
            parse_wfactors(CTE_FP_CANARIAS, cogen, cogennepb, red1, red2, strip)
      [] Canonical(l) = "CEUTAMELILLA" ->
            parse_wfactors(CTE_FP_CEUTAMELILLA, cogen, cogennepb, red1, red2, strip)
      [] OTHER -> UnknownLocation(l)

new_wfactors(l, cogen, cogennepb, red1, red2, strip) ==
    CASE l = "PENINSULA" ->
            parse_wfactors(CTE_FP_PENINSULA, cogen, cogennepb, red1, red2, strip)
      [] l = "BALEARES" ->
            parse_wfactors(CTE_FP_BALEARES, cogen, cogennepb, red1, red2, strip)
      [] l = "CANARIAS" ->
            parse_wfactors(CTE_FP_CANARIAS, cogen, cogennepb, red1, red2, strip)
      [] l = "CEUTAMELILLA" ->
            parse_wfactors(CTE_FP_CEUTAMELILLA, cogen, cogennepb, red1, red2, strip)
      [] OTHER -> UnknownLocation(l)

\* location strings of a call
Locations ==
    {"PENINSULA", "BALEARES", "CANARIAS", "CEUTAMELILLA",
     "peninsula", "Peninsula", "canarias", "PENINSULA ", "CEUTA", "MADRID", ""}

\* the optional arguments of a call: each given or not
LocationCalls ==
    [cogen : {None, Some(RenNren(2000, 21000))},
     cogennepb : {None, Some(RenNren(100, 24500))},
     red1 : {None, Some(RenNren(5000, 5000))},
     red2 : {None, Some(RenNren(6000, 4000))}]

InitLocation ==
    /\ pc = "idle"
    /\ FactorsIdle
    /\ ComponentsIdle
    /\ AuxIdle

NewWfactors(l, a, strip) ==
    /\ pc = "idle"
    /\ loc' = l
    /\ args' = a
    /\ stripnepb' = strip
    /\ located' = new_wfactors(l, a.cogen, a.cogennepb, a.red1, a.red2, strip)
    /\ pc' = "located"
    /\ UNCHANGED <<wfactors, user, fixed, refixed, compVars,
                   updated, nearby, stripped, vecVars, ueVars>>

NextLocation ==
    \E l \in Locations, a \in LocationCalls, strip \in BOOLEAN : NewWfactors(l, a, strip)

SpecLocation == InitLocation /\ [][NextLocation]_vars

(***************************************************************************)
(* The round trip of a UsedEnergy text: a text is written from fields,     *)
(* parsed, and the record formatted                                        *)
(***************************************************************************)
\* the text of a record: fields joined by ", ", the values with two decimals
\* (given in hundredths), then " # " and the comment if there is one; the
\* legacy form has no service field
TextOf(f) ==
    <<IntTok(f.id), Comma, Space, Word(f.carrier), Comma, Space,
      Word("CONSUMO"), Comma, Space, Word(f.csubtype), Comma, Space>>
    \o (IF f.form = "legacy" THEN <<>> ELSE <<Word(f.service), Comma, Space>>)
    \o Join([i \in DOMAIN f.decs |-> <<DecTok(f.decs[i])>>])
    \o (IF f.comment # <<>> THEN <<Space, Hash, Space>> \o f.comment ELSE <<>>)

\* values in hundredths: 1.00, -0.25, 0.29, 1234567.89
DecValues == {100, -25, 29, 123456789}

DecLists == UNION {[1..k -> DecValues] : k \in 0..MaxValues}

Comments ==
    { <<>>,
      <<Word("Comentario"), Space, Word("cons"), Space, IntTok(1)>>,
      <<Word("a"), Space, Hash, Space, Word("b")>> }

UeFields ==
    [form : {"canonical", "legacy"}, id : {0, 3},
     carrier : {"ELECTRICIDAD", "GASNATURAL"}, csubtype : {"EPB", "NEPB"},
     service : {"NDEF", "ACS"}, decs : DecLists, comment : Comments]

InitUsedEnergy ==
    /\ pc = "text"
    /\ FactorsIdle
    /\ ComponentsIdle
    /\ UserIdle /\ NearbyIdle /\ StripIdle /\ LocIdle /\ VecIdle
    /\ uefields \in UeFields
    /\ uetext = TextOf(uefields)
    /\ ueparsed = ParseError
    /\ ueout = None

ParseUsedEnergy ==
    /\ pc = "text"
    /\ ueparsed' = FromStr(uetext)
    /\ pc' = "parsed"
    /\ UNCHANGED <<factorVars, compVars, updated, nearby, stripped, locVars, vecVars,
                   uefields, uetext, ueout>>

FormatUsedEnergy ==
    /\ pc = "parsed"
    /\ ueparsed.ok
    /\ ueout' = Some(Display(ueparsed.value[1]))
    /\ pc' = "formatted"
    /\ UNCHANGED <<factorVars, compVars, updated, nearby, stripped, locVars, vecVars,
                   uefields, uetext, ueparsed>>

NextUsedEnergy == ParseUsedEnergy \/ FormatUsedEnergy

SpecUsedEnergy == InitUsedEnergy /\ [][NextUsedEnergy]_vars

(***************************************************************************)
(* from_str on texts of any number of fields: the fields of a record, with *)
(* or without id and service, of which the first nfields are written       *)
(***************************************************************************)
\* the fields of the record, each a text
FieldsOf(f) ==
    (IF f.hasid THEN << <<IntTok(3)>> >> ELSE <<>>)
    \o << <<Word("ELECTRICIDAD")>>, <<Word(f.ctype)>>, <<Word(f.csubtype)>> >>
    \o (IF f.hasservice THEN << <<Word("ACS")>> >> ELSE <<>>)
    \o [i \in DOMAIN f.decs |-> <<DecTok(f.decs[i])>>]

\* the first nfields fields joined by ", ", then " # " and the comment
FieldsText(f) ==
    Join(SubSeq(FieldsOf(f), 1, f.nfields))
    \o (IF f.comment # <<>> THEN <<Space, Hash, Space>> \o f.comment ELSE <<>>)

FieldValues == UNION {[1..k -> {100, -25}] : k \in 0..MaxValues}

FieldRecords ==
    { f \in [form : {"fields"}, hasid : BOOLEAN, ctype : {"CONSUMO", "PRODUCCION"},
             csubtype : {"EPB", "NEPB", "INSITU"}, hasservice : BOOLEAN,
             decs : FieldValues, nfields : 0..(5 + MaxValues),
             comment : {<<>>, <<Word("Comentario")>>}] :
        f.nfields <= Len(FieldsOf(f)) }

InitFromStr ==
    /\ pc = "text"
    /\ FactorsIdle
    /\ ComponentsIdle
    /\ UserIdle /\ NearbyIdle /\ StripIdle /\ LocIdle /\ VecIdle
    /\ uefields \in FieldRecords
    /\ uetext = FieldsText(uefields)
    /\ ueparsed = ParseError
    /\ ueout = None

SpecFromStr == InitFromStr /\ [][NextUsedEnergy]_vars

(***************************************************************************)
(* fix_components applied twice: the list is read, balanced, and the       *)
(* balanced list is balanced again (values in f32)                         *)
(***************************************************************************)
\* a component with a series of f32 values given in halves
HalvesComp(carrier, ctype, csubtype, srv, halves) ==
    Component(carrier, ctype, csubtype, srv,
              [t \in 1..Len(halves) |-> F32Round(Rat(halves[t], 2))], <<>>)

\* components with values of different magnitude: 16777215.0 and 0.5 among
\* them
RebalancePool ==
    { HalvesComp("MEDIOAMBIENTE", "CONSUMO", "EPB", "CAL", <<33554430, 20>>),
      HalvesComp("MEDIOAMBIENTE", "PRODUCCION", "INSITU", "CAL", <<1, 8>>),
      HalvesComp("MEDIOAMBIENTE", "CONSUMO", "EPB", "CAL", <<10, -10>>),
      HalvesComp("MEDIOAMBIENTE", "CONSUMO", "EPB", "ACS", <<6>>),
      HalvesComp("MEDIOAMBIENTE", "PRODUCCION", "INSITU", "ACS", <<10, 2, 4>>),
      HalvesComp("ELECTRICIDAD", "CONSUMO", "EPB", "CAL", <<8, 4>>) }

RebalanceMetas == {<<>>, <<[key |-> "CTE_AREAREF", value |-> "100"]>>}

InitRebalance ==
    /\ pc = "rload"
    /\ FactorsIdle
    /\ components \in {[cmeta |-> m, cdata |-> <<>>] : m \in RebalanceMetas}
    /\ balanced = NoComponents
    /\ rebalanced = NoComponents
    /\ service = "NDEF"
    /\ byservice = NoPartition
    /\ UserIdle /\ NearbyIdle /\ StripIdle /\ LocIdle /\ VecIdle /\ UeIdle

\* one more component of the list is read
LoadRebalanceComponent(c) ==
    /\ pc = "rload"
    /\ Len(components.cdata) < MaxComps
    /\ components' = [components EXCEPT !.cdata = Append(@, c)]
    /\ UNCHANGED <<pc, factorVars, balanced, rebalanced, service, byservice, aux>>

\* fix_components on the list
FixComponents ==
    /\ pc = "rload"
    /\ balanced' = fix_components_f32(components)
    /\ pc' = "rbalanced"
    /\ UNCHANGED <<factorVars, components, rebalanced, service, byservice, aux>>

\* fix_components on the list it has balanced
FixComponentsAgain ==
    /\ pc = "rbalanced"
    /\ rebalanced' = fix_components_f32(balanced)
    /\ pc' = "rebalanced"
    /\ UNCHANGED <<factorVars, components, balanced, service, byservice, aux>>

NextRebalance ==
    \/ \E c \in RebalancePool : LoadRebalanceComponent(c)
    \/ FixComponents
    \/ FixComponentsAgain

SpecRebalance == InitRebalance /\ [][NextRebalance]_vars

(***************************************************************************)
(* Claims on the completion engine (checked under SpecFactors)             *)
(***************************************************************************)
\* fix_wfactors returned a table
Completed == pc \in {"fixed", "refixed"} /\ fixed.ok

\* fix_wfactors returned an error
Failed == pc \in {"fixed", "refixed"} /\ ~fixed.ok

\* the table has a row with exactly this key
HasKey(wdata, c, s, d, st) ==
    \E i \in 1..Len(wdata) : KeyOf(wdata[i]) = <<c, s, d, st>>

\* the table has a row with exactly this key and these values
HasRowWith(wdata, c, s, d, st, ren, nren) ==
    \E i \in 1..Len(wdata) :
        KeyOf(wdata[i]) = <<c, s, d, st>> /\ wdata[i].ren = ren /\ wdata[i].nren = nren

\* every carrier of the table has its grid supply row of step A
GridCovered(wdata) ==
    \A i \in 1..Len(wdata) : HasKey(wdata, wdata[i].carrier, "RED", "SUMINISTRO", "A")

ExportPairs ==
    { <<"ELECTRICIDAD", "INSITU">>, <<"ELECTRICIDAD", "COGENERACION">>,
      <<"MEDIOAMBIENTE", "INSITU">> }

\* C1 as stated: a returned table has the grid supply row of every carrier
\* in it and, for each export pair, the rows to the grid and to non-EPB
\* uses of steps A and B, whatever the strip flag.
C1_CoverageAnyStrip ==
    Completed =>
        /\ GridCovered(fixed.wdata)
        /\ \A e \in ExportPairs : \A d \in {"A_RED", "A_NEPB"}, st \in {"A", "B"} :
               HasKey(fixed.wdata, e[1], e[2], d, st)

\* C1 amended: a returned table has the grid supply row of every carrier in
\* it and, for each export pair, the rows to the grid of steps A and B;
\* the rows to non-EPB uses of steps A and B are there when strip is false.
C1_Coverage ==
    Completed =>
        /\ GridCovered(fixed.wdata)
        /\ \A e \in ExportPairs : \A st \in {"A", "B"} :
               /\ HasKey(fixed.wdata, e[1], e[2], "A_RED", st)
               /\ ~stripnepb => HasKey(fixed.wdata, e[1], e[2], "A_NEPB", st)

C1_Witness ==
    /\ Completed
    /\ ~stripnepb
    /\ \E i \in 1..Len(wfactors.wdata) : wfactors.wdata[i].carrier = "GASNATURAL"
    /\ ~HasKey(wfactors.wdata, "MEDIOAMBIENTE", "INSITU", "SUMINISTRO", "A")

\* C2: a second pass of fix_wfactors over the table it returned, with the
\* same user values and strip flag, succeeds and returns the same table.
C2_Idempotent ==
    pc = "refixed" =>
        /\ refixed.ok
        /\ refixed.wdata = fixed.wdata
        /\ refixed.wmeta = fixed.wmeta

\* the carriers of the given table that have no grid supply row of step A
NoGridRow(wdata) ==
    {c \in CarriersOf(wdata) : ~HasKey(wdata, c, "RED", "SUMINISTRO", "A")}

\* C3 as stated: fix_wfactors fails whenever a carrier of the given table,
\* of any kind, has no (carrier, RED, SUMINISTRO, A) row in that table.
C3_FailsAnyCarrier ==
    (pc = "fixed" /\ NoGridRow(wfactors.wdata) # {}) => ~fixed.ok

\* C3 amended: fix_wfactors fails whenever a carrier of the given table
\* other than MEDIOAMBIENTE has no (carrier, RED, SUMINISTRO, A) row in that
\* table; the grid row of MEDIOAMBIENTE alone is defaulted (to 1.0, 0.0).
C3_FailsButAmbient ==
    /\ (pc = "fixed" /\ NoGridRow(wfactors.wdata) \ {"MEDIOAMBIENTE"} # {}) => ~fixed.ok
    /\ (Completed /\ ~HasKey(wfactors.wdata, "MEDIOAMBIENTE", "RED", "SUMINISTRO", "A"))
           => HasRowWith(fixed.wdata, "MEDIOAMBIENTE", "RED", "SUMINISTRO", "A", 10000, 0)

C3_Witness ==
    /\ Failed
    /\ HasKey(wfactors.wdata, "ELECTRICIDAD", "RED", "SUMINISTRO", "A")
    /\ NoGridRow(wfactors.wdata) = {"GASNATURAL"}

\* the carriers an error can name
CarrierNames ==
    {"ELECTRICIDAD", "MEDIOAMBIENTE", "GASNATURAL", "RED1", "RED2", "BIOMASA",
     "BIOMASADENSIFICADA", "BIOCARBURANTE", "CARBON", "GASOLEO", "GLP"}

\* C4: a failure returns no table, and its error names the carrier whose
\* factor is missing and the derivation that could not be made.
C4_ErrorNamesCarrier ==
    Failed =>
        /\ fixed.wdata = <<>>
        /\ fixed.err.carrier \in CarrierNames
        /\ fixed.err.derivation \in
               {"RED_SUMINISTRO_A", "A_RED_A", "A_NEPB_A", "A_RED_B", "A_NEPB_B"}

\* the rows the strip flag lets through
Unstripped(wdata, strip) ==
    SelectSeq(wdata, LAMBDA f : ~strip \/ f.dest # "A_NEPB")

\* C5: the returned table starts with the given rows (those not to non-EPB
\* uses when strip is true), unchanged and in order, and every row after
\* them has a key that no row before it has.
C5_AppendOnly ==
    Completed =>
        LET given == Unstripped(wfactors.wdata, stripnepb)
            out == fixed.wdata
        IN /\ Len(out) >= Len(given)
           /\ SubSeq(out, 1, Len(given)) = given
           /\ \A i \in (Len(given) + 1)..Len(out) :
                  \A j \in 1..(i - 1) : KeyOf(out[j]) # KeyOf(out[i])

C5_Witness ==
    /\ Completed
    /\ stripnepb
    /\ \E i \in 1..Len(wfactors.wdata) : wfactors.wdata[i].dest = "A_NEPB"
    /\ HasKey(wfactors.wdata, "MEDIOAMBIENTE", "INSITU", "SUMINISTRO", "A")
    /\ Len(fixed.wdata) > Len(wfactors.wdata)

\* C6: with strip = true the returned table has no row to non-EPB uses and
\* is the table returned with strip = false less those rows.
C6_StripRemovesNepb ==
    (Completed /\ stripnepb) =>
        LET full == fix_wfactors(update_user_wfactors(wfactors, user), user, FALSE)
        IN /\ \A i \in 1..Len(fixed.wdata) : fixed.wdata[i].dest # "A_NEPB"
           /\ full.ok
           /\ fixed.wdata = SelectSeq(full.wdata, LAMBDA f : f.dest # "A_NEPB")

C6_Witness ==
    /\ Completed
    /\ stripnepb
    /\ \E i \in 1..Len(wfactors.wdata) : wfactors.wdata[i].dest = "A_NEPB"

\* the table of the example: electricity and natural gas from the grid
ExampleTable ==
    << Row("ELECTRICIDAD", "RED", "SUMINISTRO", "A", 5000, 20000),
       Row("GASNATURAL", "RED", "SUMINISTRO", "A", 0, 11000) >>

\* C7: for the example table, with no optional value and no metadata,
\* parse_wfactors succeeds and the result has the rows
\* ELECTRICIDAD, INSITU, SUMINISTRO, A, 1.0, 0.0;
\* ELECTRICIDAD, COGENERACION, SUMINISTRO, A, 0.0, 0.0 and
\* ELECTRICIDAD, COGENERACION, A_RED, A with the default cogeneration values.
C7_Example ==
    (pc = "fixed" /\ wfactors = [wmeta |-> <<>>, wdata |-> ExampleTable] /\ args = NoArgs)
        => /\ fixed.ok
           /\ HasRowWith(fixed.wdata, "ELECTRICIDAD", "INSITU", "SUMINISTRO", "A", 10000, 0)
           /\ HasRowWith(fixed.wdata, "ELECTRICIDAD", "COGENERACION", "SUMINISTRO", "A", 0, 0)
           /\ HasRowWith(fixed.wdata, "ELECTRICIDAD", "COGENERACION", "A_RED", "A",
                         CTE_COGEN_DEFAULTS_TO_GRID.ren, CTE_COGEN_DEFAULTS_TO_GRID.nren)

C7_Witness ==
    /\ pc = "fixed"
    /\ wfactors = [wmeta |-> <<>>, wdata |-> ExampleTable]
    /\ args = NoArgs
    /\ fixed.ok

(***************************************************************************)
(* Claims on balancing and partitioning (checked under SpecComponents)     *)
(***************************************************************************)
Balanced == pc \in {"balanced", "partitioned"}

\* value of a component at timestep t, zero beyond the end of its series
ValueAt(c, t) == IF t \in DOMAIN c.values THEN c.values[t] ELSE RZero

\* sum at timestep t of the series of a sequence of components
RECURSIVE ColSum(_, _)
ColSum(comps, t) ==
    IF comps = <<>> THEN RZero
    ELSE RAdd(ValueAt(Head(comps), t), ColSum(Tail(comps), t))

\* timesteps of the longest series of the balanced list
Horizon == 1..MaxOf({0} \cup {Len(balanced.cdata[k].values) : k \in DOMAIN balanced.cdata})

\* the ambient components of a type declared for a service in the input
Ambient(ctype, srv) ==
    SelectSeq(components.cdata, LAMBDA c :
        c.carrier = "MEDIOAMBIENTE" /\ c.ctype = ctype /\ c.service = srv)

\* the components fix_components appended for a service
AppendedFor(srv) ==
    SelectSeq(SubSeq(balanced.cdata, Len(components.cdata) + 1, Len(balanced.cdata)),
              LAMBDA c : c.service = srv)

AmbientC(srv, t) == ColSum(Ambient("CONSUMO", srv), t)

AmbientP(srv, t) == ColSum(Ambient("PRODUCCION", srv), t)

SyntheticQ(srv, t) == ColSum(AppendedFor(srv), t)

BalanceHolds(srv) ==
    \A t \in Horizon :
        /\ RLeq(AmbientC(srv, t), RAdd(AmbientP(srv, t), SyntheticQ(srv, t)))
        /\ RLeq(AmbientC(srv, t), AmbientP(srv, t)) => SyntheticQ(srv, t) = RZero

EnvServices ==
    {components.cdata[k].service : k \in
        {i \in DOMAIN components.cdata : components.cdata[i].carrier = "MEDIOAMBIENTE"}}

\* timesteps of the summed ambient consumption of a service
ConsumptionSteps(srv) ==
    1..MaxOf({0} \cup {Len(Ambient("CONSUMO", srv)[k].values) :
                           k \in DOMAIN Ambient("CONSUMO", srv)})

\* consumption minus production, clamped at zero when production is declared
DeficitAt(srv, t) ==
    LET d == RSub(AmbientC(srv, t), AmbientP(srv, t))
    IN IF Ambient("PRODUCCION", srv) = <<>> THEN AmbientC(srv, t)
       ELSE IF RPos(d) THEN d ELSE RZero

Deficit(srv) == [t \in ConsumptionSteps(srv) |-> DeficitAt(srv, t)]

RECURSIVE SeriesSum(_)
SeriesSum(v) == IF v = <<>> THEN RZero ELSE RAdd(Head(v), SeriesSum(Tail(v)))

\* C9: for each service among the ambient components, fix_components appends
\* exactly one component (MEDIOAMBIENTE, PRODUCCION, INSITU, the service, the
\* deficit, the fixed comment) if and only if the deficit (summed consumption
\* minus summed production of the same service, clamped at zero per timestep
\* when production exists) sums to a nonzero value; nothing else is appended
\* and the input components are kept; consumption [10,10] without production
\* yields an appended production of [10,10].
C9_Deficit ==
    Balanced =>
        /\ SubSeq(balanced.cdata, 1, Len(components.cdata)) = components.cdata
        /\ \A srv \in Services :
            IF srv \in EnvServices /\ SeriesSum(Deficit(srv)) # RZero
            THEN AppendedFor(srv) =
                   << [carrier |-> "MEDIOAMBIENTE", ctype |-> "PRODUCCION",
                       csubtype |-> "INSITU", service |-> srv,
                       values |-> Deficit(srv),
                       comment |-> <<"Equilibrado de energia termica insitu consumida y sin produccion declarada">>] >>
            ELSE AppendedFor(srv) = <<>>
        /\ \A srv \in Services :
            /\ Ambient("PRODUCCION", srv) = <<>>
            /\ Len(Ambient("CONSUMO", srv)) = 1
            /\ Ambient("CONSUMO", srv)[1].values = <<Rat(10, 1), Rat(10, 1)>>
            => /\ Len(AppendedFor(srv)) = 1
               /\ AppendedFor(srv)[1].values = <<Rat(10, 1), Rat(10, 1)>>

\* heating consumes [10,10] and declares no production while another service
\* declares production: [10,10] is appended for heating all the same
C9_Witness ==
    /\ pc = "balanced"
    /\ Ambient("PRODUCCION", "CAL") = <<>>
    /\ Len(Ambient("CONSUMO", "CAL")) = 1
    /\ Ambient("CONSUMO", "CAL")[1].values = <<Rat(10, 1), Rat(10, 1)>>
    /\ Ambient("PRODUCCION", "ACS") # <<>>
    /\ Len(AppendedFor("CAL")) = 1
    /\ AppendedFor("CAL")[1].values = <<Rat(10, 1), Rat(10, 1)>>

\* services occurring in the balanced components
Occurring == {balanced.cdata[k].service : k \in DOMAIN balanced.cdata}

AllPartitioned == pc = "partitioned" /\ Occurring \subseteq DOMAIN byservice

\* the rows components_by_service appended to the rows of the service
ReassignedRows(srv) ==
    SubSeq(byservice[srv].cdata,
           Len(SelectSeq(balanced.cdata, LAMBDA c : c.service = srv)) + 1,
           Len(byservice[srv].cdata))

RECURSIVE ReassignedSum(_, _)
ReassignedSum(srvs, t) ==
    IF srvs = {} THEN RZero
    ELSE LET srv == CHOOSE x \in srvs : TRUE
         IN RAdd(ColSum(ReassignedRows(srv), t), ReassignedSum(srvs \ {srv}, t))

\* on-site electricity production of the undefined service
NdefProduction ==
    SelectSeq(balanced.cdata, LAMBDA c :
        /\ c.carrier = "ELECTRICIDAD" /\ c.ctype = "PRODUCCION"
        /\ c.csubtype = "INSITU" /\ c.service = "NDEF")

RECURSIVE GrandTotal(_)
GrandTotal(comps) ==
    IF comps = <<>> THEN RZero
    ELSE RAdd(SeriesSum(Head(comps).values), GrandTotal(Tail(comps)))

\* electricity consumption of a set of services
ElecConsumption(srvs) ==
    GrandTotal(SelectSeq(balanced.cdata, LAMBDA c :
        c.carrier = "ELECTRICIDAD" /\ c.ctype = "CONSUMO" /\ c.service \in srvs))

Conserved == \A t \in Horizon : ReassignedSum(Occurring, t) = ColSum(NdefProduction, t)

\* C10 as stated: whenever total electricity consumption is positive, the
\* elementwise sum over all occurring services of the reassigned production
\* rows equals the original NDEF on-site electricity production series.
C10_ConservedAnySign ==
    AllPartitioned /\ RPos(ElecConsumption(Services)) => Conserved

\* C10 (amended): whenever total electricity consumption is positive and no
\* service has a negative electricity consumption total, the elementwise sum
\* over all occurring services of the reassigned production rows equals the
\* original NDEF on-site electricity production series.
C10_Conserved ==
    /\ AllPartitioned
    /\ RPos(ElecConsumption(Services))
    /\ \A srv \in Occurring : RLeq(RZero, ElecConsumption({srv}))
    => Conserved

\* undefined-service production shared between two consuming services
C10_Witness ==
    /\ AllPartitioned
    /\ NdefProduction # <<>>
    /\ \E s1, s2 \in Occurring :
        /\ s1 # s2
        /\ RPos(ElecConsumption({s1})) /\ RPos(ElecConsumption({s2}))
        /\ ReassignedRows(s1) # <<>> /\ ReassignedRows(s2) # <<>>

(***************************************************************************)
(* Claims on the nearby conversion (checked under SpecNearby)              *)
(***************************************************************************)
InNearbyPerimeter(f) ==
    \/ f.source \in {"INSITU", "COGENERACION"}
    \/ f.carrier \in {"MEDIOAMBIENTE", "RED1", "RED2", "BIOMASA", "BIOMASADENSIFICADA"}

NearbyRows ==
    pc = "nearby" =>
        /\ Len(nearby.wdata) = Len(wfactors.wdata)
        /\ \A i \in 1..Len(wfactors.wdata) :
            LET old == wfactors.wdata[i]
                new == nearby.wdata[i]
            IN /\ KeyOf(new) = KeyOf(old)
               /\ IF InNearbyPerimeter(old) THEN new = old
                  ELSE new.ren = 0 /\ new.nren = old.ren + old.nren
               /\ new.ren + new.nren = old.ren + old.nren

\* C11: wfactors_to_nearby returns as many rows as its input, in the same
\* order and with the same keys; a row is copied unchanged if its source is
\* INSITU or COGENERACION or its carrier is MEDIOAMBIENTE, RED1, RED2, BIOMASA
\* or BIOMASADENSIFICADA, every other row gets ren = 0 and nren = old ren +
\* old nren, so ren + nren is preserved in every row; the input table is not
\* modified by the call.
C11_Nearby == []NearbyRows /\ [][pc' = "nearby" => wfactors' = wfactors]_vars

\* a converted table with a copied grid row of a nearby carrier, a copied
\* on-site row and a rewritten row with a renewable part
C11_Witness ==
    /\ pc = "nearby"
    /\ \E i, j, k \in 1..Len(wfactors.wdata) :
        /\ wfactors.wdata[i].source = "RED" /\ wfactors.wdata[i].carrier \in CTE_NRBY
        /\ wfactors.wdata[j].source = "INSITU"
        /\ ~InNearbyPerimeter(wfactors.wdata[k]) /\ wfactors.wdata[k].ren > 0
        /\ nearby.wdata[k].ren = 0

\* C12 as stated: whatever the metadata of the input, looking up CTE_PERIMETRO
\* (first match) in the metadata of the table wfactors_to_nearby returns
\* yields NEARBY.
C12_TaggedNearby ==
    pc = "nearby" => get_meta(nearby.wmeta, "CTE_PERIMETRO") = Some("NEARBY")

(***************************************************************************)
(* Claims on the resolution of user values (checked under SpecUser)        *)
(***************************************************************************)
FirstOf(I) == CHOOSE i \in I : \A j \in I : i <= j

MetaAt(key) == {i \in DOMAIN wfactors.wmeta : wfactors.wmeta[i].key = key}

\* rows of the input table that match the family
CogenRows(dest) ==
    {i \in DOMAIN wfactors.wdata :
        /\ wfactors.wdata[i].source = "COGENERACION"
        /\ wfactors.wdata[i].step = "A"
        /\ wfactors.wdata[i].dest = dest}

RedRows(carrier) ==
    {i \in DOMAIN wfactors.wdata :
        /\ wfactors.wdata[i].carrier = carrier
        /\ wfactors.wdata[i].step = "A"
        /\ wfactors.wdata[i].dest = "SUMINISTRO"}

\* argument, else metadata, else first matching row, else default
Resolved(arg, key, rows, dflt) ==
    IF arg # <<>> THEN arg[1]
    ELSE IF MetaAt(key) # {} THEN wfactors.wmeta[FirstOf(MetaAt(key))].value
    ELSE IF rows # {}
         THEN [ren |-> wfactors.wdata[FirstOf(rows)].ren,
               nren |-> wfactors.wdata[FirstOf(rows)].nren]
    ELSE dflt

\* C13: find_user_wfactors resolves each of the four families from its own
\* sources in strict precedence: the explicit argument, else the metadata
\* value under its key, else the first matching row, else the hard-coded
\* default; resolving and recording the values leaves the rows unchanged.
C13_Precedence ==
    pc = "resolved" =>
        /\ user.cogen = Resolved(args.cogen, "CTE_COGEN", CogenRows("A_RED"),
                                 CTE_COGEN_DEFAULTS_TO_GRID)
        /\ user.cogennepb = Resolved(args.cogennepb, "CTE_COGENNEPB", CogenRows("A_NEPB"),
                                     CTE_COGEN_DEFAULTS_TO_NEPB)
        /\ user.red1 = Resolved(args.red1, "CTE_RED1", RedRows("RED1"),
                                CTE_RED_DEFAULTS_RED1)
        /\ user.red2 = Resolved(args.red2, "CTE_RED2", RedRows("RED2"),
                                CTE_RED_DEFAULTS_RED2)
        /\ updated.wdata = wfactors.wdata

\* one call where three levels and the default are used: red1 from the
\* argument over metadata and a row, cogennepb from a row, red2 from the
\* default
C13_Witness ==
    /\ pc = "resolved"
    /\ args.red1 # None /\ MetaAt("CTE_RED1") # {} /\ RedRows("RED1") # {}
    /\ args.cogennepb = None /\ MetaAt("CTE_COGENNEPB") = {} /\ CogenRows("A_NEPB") # {}
    /\ args.red2 = None /\ MetaAt("CTE_RED2") = {} /\ RedRows("RED2") = {}
    /\ user.red2 = CTE_RED_DEFAULTS_RED2

(***************************************************************************)
(* Claims on the vector operations (checked under SpecVecOps, SpecVecList) *)
(***************************************************************************)
\* element i of a vector, 0 beyond its length
ElementOr0(v, i) == IF i \in DOMAIN v THEN v[i] ELSE RZero

LongerLen == IF Len(operand1) >= Len(operand2) THEN Len(operand1) ELSE Len(operand2)

\* the operation applied to the i-th elements of the operands
Elementwise(op, i) ==
    LET a == ElementOr0(operand1, i)
        b == ElementOr0(operand2, i)
    IN CASE op = "sum" -> RAdd(a, b)
         [] op = "dif" -> RSub(a, b)
         [] op = "mul" -> RMul(a, b)
         [] op = "min" -> IF RLeq(a, b) THEN a ELSE b

\* C14 as stated: for vecvecsum, vecvecdif, vecvecmul and vecvecmin and all
\* operand lengths, the result has the length of the longer operand and its
\* element i is the operation applied to the i-th elements, the shorter
\* operand read as 0 beyond its length, whichever operand is the shorter.
C14_LongerOperand ==
    pc = "applied" =>
        \A op \in {"sum", "dif", "mul", "min"} :
            /\ Len(vecres[op]) = LongerLen
            /\ \A i \in 1..LongerLen : vecres[op][i] = Elementwise(op, i)

\* length of the longest vector of the list, 0 for the empty list
LongestLen == MaxOf({0} \cup {Len(vectors[k]) : k \in DOMAIN vectors})

RECURSIVE SumAt(_, _)
SumAt(vs, i) == IF vs = <<>> THEN RZero ELSE RAdd(ElementOr0(Head(vs), i), SumAt(Tail(vs), i))

\* C15 as stated: for every list of vectors, veclistsum returns a vector as
\* long as the longest vector of the list whose element i is the sum of the
\* i-th elements, taking 0 for the vectors that are shorter.
C15_LongestLength ==
    pc = "summed" =>
        /\ Len(listsum[1]) = LongestLen
        /\ \A i \in 1..LongestLen : listsum[1][i] = SumAt(vectors, i)

(***************************************************************************)
(* Claims on the pruning (checked under SpecStrip)                         *)
(***************************************************************************)
SomeComponent(carrier, csubtype) ==
    \E k \in DOMAIN components.cdata :
        /\ (carrier = "*" \/ components.cdata[k].carrier = carrier)
        /\ (csubtype = "*" \/ components.cdata[k].csubtype = csubtype)

\* the four conditions a row is kept under
Needed(f) ==
    /\ SomeComponent(f.carrier, "*")
    /\ f.source # "COGENERACION" \/ SomeComponent("*", "COGENERACION")
    /\ f.dest # "A_NEPB" \/ SomeComponent("*", "NEPB")
    /\ ~(f.carrier = "ELECTRICIDAD" /\ f.source = "INSITU")
       \/ SomeComponent("ELECTRICIDAD", "INSITU")

\* C16: strip_wfactors keeps exactly the rows - unchanged, in their order,
\* metadata untouched - whose carrier appears in some component, whose source
\* is not COGENERACION unless some component is tagged COGENERACION, whose
\* dest is not A_NEPB unless some component is tagged NEPB, and that are not
\* (ELECTRICIDAD, INSITU) rows unless some component is an on-site electricity
\* production; it adds no row.
C16_Strip ==
    pc = "stripped" =>
        /\ stripped.wmeta = wfactors.wmeta
        /\ stripped.wdata = SelectSeq(wfactors.wdata, Needed)
        /\ \A i \in DOMAIN stripped.wdata :
            \E j \in DOMAIN wfactors.wdata : stripped.wdata[i] = wfactors.wdata[j]

\* a pruning that removes an on-site electricity row and keeps an on-site row
\* of another carrier and a grid row
C16_Witness ==
    /\ pc = "stripped"
    /\ \E i, j \in DOMAIN wfactors.wdata :
        /\ wfactors.wdata[i].carrier = "ELECTRICIDAD"
        /\ wfactors.wdata[i].source = "INSITU"
        /\ ~Needed(wfactors.wdata[i])
        /\ wfactors.wdata[j].carrier = "MEDIOAMBIENTE"
        /\ Needed(wfactors.wdata[j])
    /\ Len(stripped.wdata) >= 2
    /\ Len(stripped.wdata) < Len(wfactors.wdata)

(***************************************************************************)
(* Claims on the partition of one service (checked under SpecComponents)   *)
(***************************************************************************)
RowsOf(srv) == SelectSeq(balanced.cdata, LAMBDA c : c.service = srv)

\* target electricity consumption / total electricity consumption
Share(srv) == RDiv(ElecConsumption({srv}), ElecConsumption(Services))

\* the production row of the service made from an undefined-service row
Scaled(c, srv) ==
    [carrier |-> "ELECTRICIDAD", ctype |-> "PRODUCCION", csubtype |-> "INSITU",
     service |-> srv,
     values |-> [t \in DOMAIN c.values |-> RMul(c.values[t], Share(srv))],
     comment |-> c.comment
                 \o <<"Produccion insitu proporcionalmente reasignada al servicio.">>]

\* C17: in components_by_service, when NDEF on-site electricity production
\* rows exist and the total electricity consumption and that of the target
\* service are positive, the result is the input rows of the target service
\* followed by one (ELECTRICIDAD, PRODUCCION, INSITU, target) row per NDEF
\* production row, with that row's values multiplied by the share target
\* consumption / total consumption and the comment amended.
C17_Reassignment ==
    \A srv \in DOMAIN byservice :
        /\ NdefProduction # <<>>
        /\ RPos(ElecConsumption(Services))
        /\ RPos(ElecConsumption({srv}))
        => byservice[srv].cdata =
             RowsOf(srv) \o [k \in DOMAIN NdefProduction |-> Scaled(NdefProduction[k], srv)]

\* a service with rows of its own that receives part, not all, of the
\* undefined-service production
C17_Witness ==
    \E srv \in DOMAIN byservice :
        /\ NdefProduction # <<>>
        /\ RPos(ElecConsumption({srv}))
        /\ RPos(ElecConsumption(Services))
        /\ ElecConsumption({srv}) # ElecConsumption(Services)
        /\ RowsOf(srv) # <<>>
        /\ Len(byservice[srv].cdata) = Len(RowsOf(srv)) + Len(NdefProduction)

ZeroConsumption(srv) ==
    ElecConsumption(Services) = RZero \/ ElecConsumption({srv}) = RZero

IsNdefProduction(c) ==
    /\ c.carrier = "ELECTRICIDAD" /\ c.ctype = "PRODUCCION"
    /\ c.csubtype = "INSITU" /\ c.service = "NDEF"

NothingReassigned(srv) ==
    /\ Len(byservice[srv].cdata) = Len(RowsOf(srv))
    /\ \A k \in DOMAIN byservice[srv].cdata : ~IsNdefProduction(byservice[srv].cdata[k])

\* C18 as stated: for every target service, if the total electricity
\* consumption or that of the target service is zero, no reassigned row is
\* appended and the result has no NDEF on-site electricity production row.
C18_ExcludedAnyTarget ==
    \A srv \in DOMAIN byservice : ZeroConsumption(srv) => NothingReassigned(srv)

\* C18 (amended): for every target service other than NDEF, if the total
\* electricity consumption or that of the target service is zero, no
\* reassigned row is appended and the result has no NDEF on-site electricity
\* production row.
C18_Excluded ==
    \A srv \in DOMAIN byservice \ {"NDEF"} :
        ZeroConsumption(srv) => NothingReassigned(srv)

\* a service with rows of its own and no electricity consumption, partitioned
\* while other services consume electricity and NDEF production exists
C18_Witness ==
    \E srv \in DOMAIN byservice \ {"NDEF"} :
        /\ NdefProduction # <<>>
        /\ ElecConsumption({srv}) = RZero
        /\ RPos(ElecConsumption(Services))
        /\ RowsOf(srv) # <<>>
        /\ byservice[srv].cdata = RowsOf(srv)

(***************************************************************************)
(* Claims on new_wfactors (checked under SpecLocation)                     *)
(***************************************************************************)
KnownLocations == {"PENINSULA", "BALEARES", "CANARIAS", "CEUTAMELILLA"}

\* C19: for every location string other than exactly PENINSULA, BALEARES,
\* CANARIAS or CEUTAMELILLA, new_wfactors returns an error that contains the
\* location string and no table, whatever the optional values and the flag.
C19_UnknownLocation ==
    pc = "located" /\ loc \notin KnownLocations =>
        /\ ~located.ok
        /\ located.wdata = <<>> /\ located.wmeta = <<>>
        /\ \E k \in DOMAIN located.err.message : located.err.message[k] = loc

\* a known name in lower case, with optional values and the strip flag given
C19_Witness ==
    /\ pc = "located"
    /\ loc = "peninsula"
    /\ args.cogen # None /\ args.red2 # None
    /\ stripnepb
    /\ ~located.ok

(***************************************************************************)
(* Claims on the text of UsedEnergy (checked under SpecUsedEnergy)         *)
(***************************************************************************)
\* every value of the text is the two-decimal form of the f32 it parses to
ExactValues == \A i \in DOMAIN uefields.decs : Hundredths(F32Of(uefields.decs[i])) = uefields.decs[i]

\* the canonical text of the fields, with the default service for a legacy text
CanonicalText ==
    TextOf([uefields EXCEPT !.form = "canonical",
                            !.service = IF uefields.form = "legacy" THEN "NDEF" ELSE @])

RoundTrip ==
    /\ pc # "text" => ueparsed.ok
    /\ pc = "formatted" =>
        /\ uefields.form = "canonical" => ueout = Some(uetext)
        /\ uefields.form = "legacy" =>
            /\ ueparsed.value[1].service = "NDEF"
            /\ ueout = Some(CanonicalText)
        /\ FromStr(ueout[1]).ok
        /\ Display(FromStr(ueout[1]).value[1]) = ueout[1]

\* C20 as stated: every canonical text (id, carrier, CONSUMO, subtype,
\* service, values with two decimals, optional " # comment") parses and
\* formats back to itself; the legacy text without the service field parses
\* to the default service and formats to the canonical text; parse-then-format
\* is idempotent.
C20_RoundTripAnyValues == RoundTrip

\* C20 on the texts with at least one value whose values are each the
\* two-decimal form of the f32 they parse to: there the round trip holds, the
\* canonical text of a legacy text being the one with the service NDEF.
C20_RoundTripExact == uefields.decs # <<>> /\ ExactValues => RoundTrip

\* a legacy text of a record of another service, with a comment holding a '#'
\* and a value that f32 does not hold exactly, parsed and formatted
C20_ExactReached ==
    /\ pc = "formatted"
    /\ uefields.form = "legacy" /\ uefields.service = "ACS"
    /\ uefields.comment # <<>>
    /\ ExactValues
    /\ \E i \in DOMAIN uefields.comment : uefields.comment[i] = Hash
    /\ \E i \in DOMAIN uefields.decs : uefields.decs[i] = 29
    /\ ueout = Some(CanonicalText)
    /\ ueout # Some(uetext)

(***************************************************************************)
(* Claims on the rows the completion engine adds (SpecFactors)             *)
(***************************************************************************)
\* the table has a row of this carrier, source and destination, of any step
HasSupply(wdata, c, s, d) ==
    \E i \in 1..Len(wdata) :
        wdata[i].carrier = c /\ wdata[i].source = s /\ wdata[i].dest = d

\* C21: a returned table has a row ELECTRICIDAD, COGENERACION, SUMINISTRO;
\* if the given table had none, it is the step-A row with ren = 0.0 and
\* nren = 0.0. This holds for every given table, also one that has a
\* cogeneration supply row of another carrier.
C21_ElecCogenSupply ==
    Completed =>
        /\ HasSupply(fixed.wdata, "ELECTRICIDAD", "COGENERACION", "SUMINISTRO")
        /\ ~HasSupply(wfactors.wdata, "ELECTRICIDAD", "COGENERACION", "SUMINISTRO")
               => HasRowWith(fixed.wdata, "ELECTRICIDAD", "COGENERACION", "SUMINISTRO", "A", 0, 0)

\* the values of the first row of the table with this key
FirstValues(wdata, c, s, d, st) ==
    LET i == MinOf({j \in 1..Len(wdata) : KeyOf(wdata[j]) = <<c, s, d, st>>})
    IN RenNren(wdata[i].ren, wdata[i].nren)

\* the row of the returned table with this key was derived: the given table
\* had no row with the key
Derived(c, s, d, st) ==
    Completed /\ ~HasKey(wfactors.wdata, c, s, d, st) /\ HasKey(fixed.wdata, c, s, d, st)

\* the resolved value a derived step-A row of cogeneration carries
CogenValue(d) == IF d = "A_RED" THEN user.cogen ELSE user.cogennepb

\* the supply row a derived step-A row of another source copies is absent
\* after rules 1-5: the given table has no (c, s, SUMINISTRO, A) row and no
\* rule adds one (rule 1 adds the one of MEDIOAMBIENTE; rule 3 adds the one
\* of ELECTRICIDAD if the carrier is in the table with no on-site supply row)
NoOwnSupply(c, s) ==
    /\ ~HasKey(wfactors.wdata, c, s, "SUMINISTRO", "A")
    /\ c = "ELECTRICIDAD"
    /\ \/ c \notin CarriersOf(wfactors.wdata)
       \/ HasSupply(wfactors.wdata, c, s, "SUMINISTRO")

\* the grid supply row the step-B rows copy is absent after rules 1-5
\* (rule 2 adds the one of MEDIOAMBIENTE)
NoGridSupply(c) ==
    ~HasKey(wfactors.wdata, c, "RED", "SUMINISTRO", "A") /\ c = "ELECTRICIDAD"

\* C22: a derived step-A export row of a pair (c, s) other than cogeneration
\* has ren/nren of the first (c, s, SUMINISTRO, A) row; of cogeneration, the
\* resolved cogen (to the grid) or cogennepb (to non-EPB uses); a derived
\* step-B row has ren/nren of the first (c, RED, SUMINISTRO, A) row. The rows
\* copied are those of the table after rules 1-5, rows added by those rules
\* included, and completion fails when a row is to be derived and the row it
\* copies is absent.
C22_ExportValues ==
    \A e \in ExportPairs : \A d \in {"A_RED", "A_NEPB"} :
        /\ Derived(e[1], e[2], d, "A") =>
              IF e[2] = "COGENERACION"
              THEN FirstValues(fixed.wdata, e[1], e[2], d, "A") = CogenValue(d)
              ELSE /\ HasKey(fixed.wdata, e[1], e[2], "SUMINISTRO", "A")
                   /\ FirstValues(fixed.wdata, e[1], e[2], d, "A")
                        = FirstValues(fixed.wdata, e[1], e[2], "SUMINISTRO", "A")
        /\ Derived(e[1], e[2], d, "B") =>
              /\ HasKey(fixed.wdata, e[1], "RED", "SUMINISTRO", "A")
              /\ FirstValues(fixed.wdata, e[1], e[2], d, "B")
                   = FirstValues(fixed.wdata, e[1], "RED", "SUMINISTRO", "A")
        /\ (/\ pc = "fixed"
            /\ \/ /\ e[2] # "COGENERACION"
                  /\ ~HasKey(wfactors.wdata, e[1], e[2], d, "A")
                  /\ NoOwnSupply(e[1], e[2])
               \/ /\ ~HasKey(wfactors.wdata, e[1], e[2], d, "B")
                  /\ NoGridSupply(e[1]))
           => ~fixed.ok

\* a table with electricity from the grid and no on-site electricity row is
\* completed with given cogeneration values: the on-site rows are derived
\* from the row rule 3 added
C22_Witness ==
    /\ Completed /\ ~stripnepb
    /\ args.cogen # None
    /\ ~HasSupply(wfactors.wdata, "ELECTRICIDAD", "INSITU", "SUMINISTRO")
    /\ \A d \in {"A_RED", "A_NEPB"}, st \in {"A", "B"} :
           Derived("ELECTRICIDAD", "INSITU", d, st)
    /\ Derived("ELECTRICIDAD", "COGENERACION", "A_RED", "A")
    /\ Derived("MEDIOAMBIENTE", "INSITU", "A_NEPB", "B")
    /\ HasKey(wfactors.wdata, "MEDIOAMBIENTE", "INSITU", "SUMINISTRO", "A")

\* the returned table has one row with this key, with these values, and the
\* given table had none
AddedWith(c, s, d, st, v) ==
    /\ Cardinality({i \in 1..Len(fixed.wdata) : KeyOf(fixed.wdata[i]) = <<c, s, d, st>>}) = 1
    /\ FirstValues(fixed.wdata, c, s, d, st) = v

\* C23: in a returned table, a (MEDIOAMBIENTE, INSITU, SUMINISTRO, A) row and
\* a (MEDIOAMBIENTE, RED, SUMINISTRO, A) row that the given table lacked are
\* added with ren = 1.0 and nren = 0.0, and a (RED1, RED, SUMINISTRO, A) row,
\* resp. (RED2, RED, SUMINISTRO, A), that the given table lacked is added
\* with the resolved red1, resp. red2, value.
C23_DefaultedSupply ==
    Completed =>
        /\ \A s \in {"INSITU", "RED"} :
               ~HasKey(wfactors.wdata, "MEDIOAMBIENTE", s, "SUMINISTRO", "A")
                   => AddedWith("MEDIOAMBIENTE", s, "SUMINISTRO", "A", RenNren(10000, 0))
        /\ ~HasKey(wfactors.wdata, "RED1", "RED", "SUMINISTRO", "A")
               => AddedWith("RED1", "RED", "SUMINISTRO", "A", user.red1)
        /\ ~HasKey(wfactors.wdata, "RED2", "RED", "SUMINISTRO", "A")
               => AddedWith("RED2", "RED", "SUMINISTRO", "A", user.red2)

\* a table with none of the four rows is completed with red1 and red2 given
\* in the call, other than the defaults
C23_Witness ==
    /\ Completed
    /\ wfactors.wdata # <<>>
    /\ \A s \in {"INSITU", "RED"} :
           ~HasKey(wfactors.wdata, "MEDIOAMBIENTE", s, "SUMINISTRO", "A")
    /\ ~HasKey(wfactors.wdata, "RED1", "RED", "SUMINISTRO", "A")
    /\ ~HasKey(wfactors.wdata, "RED2", "RED", "SUMINISTRO", "A")
    /\ args.red1 # None /\ user.red1 # CTE_RED_DEFAULTS_RED1
    /\ args.red2 # None /\ user.red2 # CTE_RED_DEFAULTS_RED2

(***************************************************************************)
(* Claims on the rows the user values are taken from (SpecUser)            *)
(***************************************************************************)
\* neither the call nor the metadata gives the value of the family
NoOverride(arg, key) == pc = "resolved" /\ arg = None /\ MetaAt(key) = {}

\* rows of the given table of step A with this source and destination
SourceRows(s, d) ==
    {i \in DOMAIN wfactors.wdata :
        /\ wfactors.wdata[i].source = s
        /\ wfactors.wdata[i].dest = d
        /\ wfactors.wdata[i].step = "A"}

\* rows of the given table of step A with this carrier and destination
CarrierRows(c, d) ==
    {i \in DOMAIN wfactors.wdata :
        /\ wfactors.wdata[i].carrier = c
        /\ wfactors.wdata[i].dest = d
        /\ wfactors.wdata[i].step = "A"}

\* the values of the first of the rows, the default if there is none
FirstOr(rows, dflt) ==
    IF rows # {} THEN FactorValues(wfactors.wdata[FirstOf(rows)]) ELSE dflt

DistrictFromSupply ==
    /\ NoOverride(args.red1, "CTE_RED1")
           => user.red1 = FirstOr(CarrierRows("RED1", "SUMINISTRO"), CTE_RED_DEFAULTS_RED1)
    /\ NoOverride(args.red2, "CTE_RED2")
           => user.red2 = FirstOr(CarrierRows("RED2", "SUMINISTRO"), CTE_RED_DEFAULTS_RED2)

\* C24 as stated: with no value in the call or the metadata, each family
\* takes the value of the first row of step A and destination SUMINISTRO
\* with source COGENERACION (the cogeneration families) or carrier RED1,
\* resp. RED2 (the district families); rows of other destinations are not
\* consulted.
C24_SupplyRows ==
    /\ NoOverride(args.cogen, "CTE_COGEN")
           => user.cogen = FirstOr(SourceRows("COGENERACION", "SUMINISTRO"),
                                   CTE_COGEN_DEFAULTS_TO_GRID)
    /\ NoOverride(args.cogennepb, "CTE_COGENNEPB")
           => user.cogennepb = FirstOr(SourceRows("COGENERACION", "SUMINISTRO"),
                                       CTE_COGEN_DEFAULTS_TO_NEPB)
    /\ DistrictFromSupply

\* C24 amended: with no value in the call or the metadata, the cogeneration
\* families take the value of the first row of step A with source
\* COGENERACION and destination A_RED (cogen), resp. A_NEPB (cogennepb), and
\* the district families that of the first row of step A with destination
\* SUMINISTRO and carrier RED1, resp. RED2; rows of other destinations are
\* not consulted.
C24_FamilyRows ==
    /\ NoOverride(args.cogen, "CTE_COGEN")
           => user.cogen = FirstOr(SourceRows("COGENERACION", "A_RED"),
                                   CTE_COGEN_DEFAULTS_TO_GRID)
    /\ NoOverride(args.cogennepb, "CTE_COGENNEPB")
           => user.cogennepb = FirstOr(SourceRows("COGENERACION", "A_NEPB"),
                                       CTE_COGEN_DEFAULTS_TO_NEPB)
    /\ DistrictFromSupply

\* a call without values on a table without metadata that has a
\* cogeneration supply row before the cogeneration rows to the grid and to
\* non-EPB uses, and a RED1 row
C24_Witness ==
    /\ NoOverride(args.cogen, "CTE_COGEN") /\ NoOverride(args.cogennepb, "CTE_COGENNEPB")
    /\ NoOverride(args.red1, "CTE_RED1") /\ NoOverride(args.red2, "CTE_RED2")
    /\ SourceRows("COGENERACION", "SUMINISTRO") # {}
    /\ SourceRows("COGENERACION", "A_RED") # {}
    /\ SourceRows("COGENERACION", "A_NEPB") # {}
    /\ FirstOf(SourceRows("COGENERACION", "SUMINISTRO")) < FirstOf(SourceRows("COGENERACION", "A_RED"))
    /\ CarrierRows("RED1", "SUMINISTRO") # {}
    /\ user.cogen = RenNren(3000, 22000)
    /\ user.red2 = CTE_RED_DEFAULTS_RED2

\* the value recorded in the returned metadata under the key is, to three
\* decimals, that of the first row of the returned table with this key
Recorded(key, c, s, d) ==
    /\ HasKey(fixed.wdata, c, s, d, "A")
    /\ get_meta_rennren(fixed.wmeta, key)
         = Some(FmtRenNren(FirstValues(fixed.wdata, c, s, d, "A")))

\* C25: after parse_wfactors succeeds with strip = false the metadata holds
\* CTE_COGEN, CTE_COGENNEPB, CTE_RED1 and CTE_RED2, each equal (to three
\* decimals) to ren/nren of the row ELECTRICIDAD, COGENERACION, A_RED, A;
\* ELECTRICIDAD, COGENERACION, A_NEPB, A; RED1, RED, SUMINISTRO, A and
\* RED2, RED, SUMINISTRO, A of the returned table, whatever the values given
\* in the call and the rows already in the table.
C25_MetadataMatchesRows ==
    (Completed /\ ~stripnepb) =>
        /\ Recorded("CTE_COGEN", "ELECTRICIDAD", "COGENERACION", "A_RED")
        /\ Recorded("CTE_COGENNEPB", "ELECTRICIDAD", "COGENERACION", "A_NEPB")
        /\ Recorded("CTE_RED1", "RED1", "RED", "SUMINISTRO")
        /\ Recorded("CTE_RED2", "RED2", "RED", "SUMINISTRO")

\* the given table has no ELECTRICIDAD row and every carrier in it has its
\* grid supply row of step A
NoElectricity ==
    /\ pc = "fixed"
    /\ "ELECTRICIDAD" \notin CarriersOf(wfactors.wdata)
    /\ GridCovered(wfactors.wdata)

UniqueKeys(wdata) ==
    \A i, j \in 1..Len(wdata) : KeyOf(wdata[i]) = KeyOf(wdata[j]) => i = j

\* C27: if the given table has at most one row per key, so has every table
\* fix_wfactors returns, for any user values and any strip flag.
C27_UniqueKeys ==
    (Completed /\ UniqueKeys(wfactors.wdata)) => UniqueKeys(fixed.wdata)

\* a table of distinct keys that already has export rows is completed with
\* further rows
C27_Witness ==
    /\ Completed
    /\ UniqueKeys(wfactors.wdata)
    /\ HasKey(wfactors.wdata, "ELECTRICIDAD", "INSITU", "A_RED", "A")
    /\ HasKey(wfactors.wdata, "ELECTRICIDAD", "COGENERACION", "A_RED", "A")
    /\ HasKey(wfactors.wdata, "MEDIOAMBIENTE", "INSITU", "SUMINISTRO", "A")
    /\ Len(fixed.wdata) > Len(wfactors.wdata)

(***************************************************************************)
(* Claims on repeated balancing (checked under SpecRebalance)              *)
(***************************************************************************)
\* the second list is the first with components appended, at most one per
\* service, and the same metadata
AppendOnly(before, after) ==
    /\ after.cmeta = before.cmeta
    /\ Len(after.cdata) >= Len(before.cdata)
    /\ SubSeq(after.cdata, 1, Len(before.cdata)) = before.cdata
    /\ \A i, j \in (Len(before.cdata) + 1)..Len(after.cdata) :
           after.cdata[i].service = after.cdata[j].service => i = j

\* C28: fix_components leaves the components and the metadata it is given
\* unchanged and in order and appends at most one component per service,
\* and a second application to its own result appends nothing.
C28_Idempotent ==
    /\ pc \in {"rbalanced", "rebalanced"} => AppendOnly(components, balanced)
    /\ pc = "rebalanced" => rebalanced = balanced

(***************************************************************************)
(* Claims on the production of a partition (checked under SpecComponents)  *)
(***************************************************************************)
\* the on-site electricity production rows of a list
ElecProduction(cdata) ==
    SelectSeq(cdata, LAMBDA c :
        c.carrier = "ELECTRICIDAD" /\ c.ctype = "PRODUCCION" /\ c.csubtype = "INSITU")

\* the rows of the partition of srv that are rows of the balanced list
OwnRows(srv) == SelectSeq(balanced.cdata, LAMBDA c : c.service = srv)

\* the partition of srv has an undefined-service production row of the
\* input as it was declared
KeepsOriginal(srv) ==
    \E k \in 1..Len(OwnRows(srv)) : IsNdefProduction(OwnRows(srv)[k])

\* the partition of srv has rows beyond the rows of the service: the scaled
\* copies of the undefined-service production rows
HasScaledCopy(srv) == Len(byservice[srv].cdata) > Len(OwnRows(srv))

\* C29: in the partition of every target service, NDEF included, every row
\* has the target service, an undefined-service on-site electricity
\* production row of the input is there either not at all or as one row
\* scaled by the share, never both as declared and as a scaled copy, and at
\* every timestep the on-site electricity production of the partition is at
\* most the production declared in the input.
C29_ProductionOnce ==
    \A srv \in DOMAIN byservice :
        /\ \A k \in 1..Len(byservice[srv].cdata) : byservice[srv].cdata[k].service = srv
        /\ ~(KeepsOriginal(srv) /\ HasScaledCopy(srv))
        /\ \A t \in Horizon :
               RLeq(ColSum(ElecProduction(byservice[srv].cdata), t),
                    ColSum(ElecProduction(balanced.cdata), t))

(***************************************************************************)
(* Claims on from_str of UsedEnergy (checked under SpecFromStr)            *)
(***************************************************************************)
\* the text has a type and a subtype field that are not those of a used
\* energy: type CONSUMO with subtype EPB or NEPB
NotUsedEnergy ==
    /\ uefields.nfields >= (IF uefields.hasid THEN 4 ELSE 3)
    /\ uefields.ctype # "CONSUMO" \/ uefields.csubtype \notin {"EPB", "NEPB"}

\* C30: from_str returns a UsedEnergy or an error for every text and never
\* panics on a field out of range, also for a record with a leading numeric
\* id and exactly four fields; it returns an error for a text of fewer than
\* four fields and for a record whose type is not CONSUMO or whose subtype
\* is not EPB or NEPB.
C30_Total ==
    pc # "text" =>
        /\ ~ueparsed.panic
        /\ uefields.nfields < 4 => ~ueparsed.ok
        /\ NotUsedEnergy => ~ueparsed.ok

====
